---- MODULE Spec2Model ----
(***************************************************************************)
(* Conversational order engine of jaj: the /chat/prompt handler            *)
(* (backend/internal/chat/handler.go, second revision) and the             *)
(* transport-fee function, over a PostgreSQL store with the tables orders  *)
(* and order_items; beside it the POST, GET and DELETE /orders handlers of  *)
(* the orders package, the admin's price update and the email goroutines   *)
(* the handlers start.                                                     *)
(*                                                                         *)
(* Every database statement and every external call of a handler is one    *)
(* atomic step; handlers of concurrent requests interleave between steps.  *)
(* Rows written inside a transaction stay in the handler's tx buffer and   *)
(* reach the committed tables only at Commit.                              *)
(***************************************************************************)
EXTENDS Integers, Sequences, FiniteSets, Bags, TLC

\* ---------------------------------------------------------------- bounds
MaxOrders == 2
MaxDay == 1
FeeRange == 12
MaxLines == 2

\* ---------------------------------------------------------------- domains
\* Goroutines net/http serves requests on, and the users of the JWTs.
Procs == {"h1", "h2"}
Users == {"alice", "bob"}
\* var pendingOrderID int: the zero value, kept when the lookup finds no row.
NoOrder == 0

\* Request bodies of /chat/prompt: the message as a sequence of characters.
MsgConfirm == <<"c", "o", "n", "f", "i", "r", "m">>
MsgCancel == <<"C", "a", "n", "c", "e", "l", "l", "e", "d">>
MsgBoth == <<"c", "a", "n", "c", "e", "l", "?", "C", "O", "N", "F", "I", "R", "M">>
MsgOrder == <<"m", "i", "l", "k">>
Messages == {MsgConfirm, MsgCancel, MsgBoth, MsgOrder}
InvalidBody == <<>>

KwConfirm == <<"c", "o", "n", "f", "i", "r", "m">>
KwCancel == <<"c", "a", "n", "c", "e", "l">>
KwCancelled == <<"c", "a", "n", "c", "e", "l", "l", "e", "d">>

\* Outputs of the extraction call after fence stripping and json.Unmarshal.
Milk == "Jesa Milk (2L)"
Bread == "bread loaves"
BreadOnly == <<[name |-> Bread, quantity |-> 2]>>

BreadAndMilk == <<[name |-> Bread, quantity |-> 1], [name |-> Milk, quantity |-> 1]>>

ParsedLists == {<<>>, BreadOnly, BreadAndMilk}

\* Extraction results whose quantity is not positive.
BreadNone == <<[name |-> Bread, quantity |-> 0]>>
BreadOwed == <<[name |-> Bread, quantity |-> -1]>>

\* Request bodies of POST /orders: req.Items (item 3 is not in the catalog).
CreateRequests ==
    {<<>>,
     <<[ItemID |-> 2, Quantity |-> 1]>>,
     <<[ItemID |-> 2, Quantity |-> 0]>>,
     <<[ItemID |-> 1, Quantity |-> -1]>>,
     <<[ItemID |-> 1, Quantity |-> 1], [ItemID |-> 3, Quantity |-> 1]>>}

\* The text the extraction call returns, as its sequence of lines. A line is a
\* code fence, a JSON array written on one line, one of the lines of an array
\* written over several lines, the JSON null, a JSON object, or prose.
\* The line of three backquotes, bare and followed by the word json.
Fence == [line |-> "fence", value |-> <<>>]
FenceJson == [line |-> "fence json", value |-> <<>>]
Array(list) == [line |-> "array", value |-> list]
Open == [line |-> "[", value |-> <<>>]
Element(e) == [line |-> "element", value |-> <<e>>]
Close == [line |-> "]", value |-> <<>>]
Null == [line |-> "null", value |-> <<>>]
Object == [line |-> "object", value |-> <<>>]
Prose == [line |-> "prose", value |-> <<>>]

\* [{"name":"bread loaves","quantity":"two"}]
WordQuantity == <<[name |-> Bread, word |-> "two"]>>

\* Responses that are no JSON array of {name, quantity}, with or without fences.
Malformed ==
    {<<>>, <<Prose>>, <<Object>>, <<Array(WordQuantity)>>, <<Prose, Array(BreadOnly)>>,
     <<FenceJson, Array(BreadOnly)>>, <<FenceJson, Prose, Fence>>,
     <<FenceJson, Open, Element(BreadOnly[1]), Close, Fence>>}

\* The responses explored for a set of extraction results: each list bare, on
\* one line inside fences, and inside an opening fence followed by prose; the
\* empty list also as null; and the malformed responses.
Outputs(lists) ==
    {<<Array(l)>> : l \in lists}
        \cup {<<FenceJson, Array(l), Fence>> : l \in lists}
        \cup {<<Fence, Array(l), Prose>> : l \in lists}
        \cup {<<Null>>}
        \cup Malformed

\* Each list bare on one line only.
BareOutputs(lists) == {<<Array(l)>> : l \in lists}

\* The catalog's item id of a product name (the catalog's top hit).
ItemIdOf(name) == IF name = Milk THEN 1 ELSE 2

\* The catalog's items, each with the prices the admin may give it and the
\* price it has when the server starts.
ItemIds == {1, 2}
PricesOf(item) == IF item = 1 THEN {3000, 5000} ELSE {2000}
ListPrice(item) == IF item = 1 THEN 5000 ELSE 2000

\* The shapes of the top catalog match: a row with the fields the handler
\* reads and their JSON types, a row without a numeric id, a row without a
\* numeric price_ugx.
Shaped == {"full"}

AnyShape == {"full", "no id", "no price"}

\* The traffic the server is explored under: which handler goroutines serve
\* requests, which users send them, what the extraction call can return (as
\* lists, and whether every shape of response text is explored for them),
\* whether midnight can pass, whether the email goroutines are followed to their
\* end, whether the admin changes prices, whether /orders is requested, the hour
\* of the day the requests arrive at, whether each handler serves one user only,
\* and how many ids the orders sequence hands out.
Serial ==
    [name |-> "serial", handlers |-> {"h1"}, users |-> Users, lists |-> ParsedLists,
     texts |-> FALSE, ticks |-> TRUE, mail |-> FALSE, admin |-> TRUE, rest |-> FALSE, hour |-> 12, split |-> FALSE, cap |-> MaxOrders, hits |-> Shaped]

Race ==
    [name |-> "race", handlers |-> Procs, users |-> {"alice"}, lists |-> {<<>>, BreadOnly},
     texts |-> FALSE, ticks |-> FALSE, mail |-> FALSE, admin |-> FALSE, rest |-> FALSE, hour |-> 12, split |-> FALSE, cap |-> MaxOrders, hits |-> Shaped]

Regular ==
    [name |-> "regular", handlers |-> {"h1"}, users |-> {"alice"},
     lists |-> {<<>>, BreadOnly}, texts |-> TRUE, ticks |-> TRUE, mail |-> FALSE, admin |-> FALSE, rest |-> FALSE, hour |-> 12, split |-> FALSE, cap |-> MaxOrders + 1, hits |-> Shaped]

Mailing ==
    [name |-> "mailing", handlers |-> {"h1"}, users |-> {"alice"},
     lists |-> {<<>>, BreadOnly}, texts |-> TRUE, ticks |-> FALSE, mail |-> TRUE, admin |-> FALSE, rest |-> FALSE, hour |-> 12, split |-> FALSE, cap |-> MaxOrders, hits |-> Shaped]

Rest ==
    [name |-> "rest", handlers |-> {"h1"}, users |-> Users,
     lists |-> {<<>>, BreadOnly, BreadNone, BreadOwed},
     texts |-> TRUE, ticks |-> FALSE, mail |-> FALSE, admin |-> FALSE, rest |-> TRUE, hour |-> 12, split |-> FALSE, cap |-> MaxOrders, hits |-> Shaped]

\* Chat turns that arrive at 20:00, outside the order window of the README.
Night ==
    [name |-> "night", handlers |-> {"h1"}, users |-> {"alice"}, lists |-> {<<>>, BreadOnly},
     texts |-> FALSE, ticks |-> FALSE, mail |-> FALSE, admin |-> FALSE, rest |-> FALSE, hour |-> 20, split |-> FALSE, cap |-> MaxOrders, hits |-> Shaped]

Scenarios == {Serial, Race, Regular, Mailing, Rest, Night}

\* The traffic under which the turns of two users interleave: each handler
\* goroutine serves the requests of one user (split).
Pair ==
    [name |-> "pair", handlers |-> Procs, users |-> Users, lists |-> {BreadOnly},
     texts |-> FALSE, ticks |-> FALSE, mail |-> FALSE, admin |-> FALSE, rest |-> TRUE, hour |-> 12, split |-> TRUE, cap |-> MaxOrders, hits |-> Shaped]

\* The traffic under which one user sends POST and DELETE /orders requests
\* only, with room for a fourth order of the day (the fee's second tier).
Bulk ==
    [name |-> "bulk", handlers |-> {"h1"}, users |-> {"alice"}, lists |-> {BreadOnly},
     texts |-> FALSE, ticks |-> FALSE, mail |-> FALSE, admin |-> FALSE, rest |-> TRUE, hour |-> 12, split |-> FALSE, cap |-> MaxOrders + 2, hits |-> Shaped]

\* The traffic under which one user sends POST and DELETE /orders requests
\* only and the notification goroutines of these requests are followed.
Notify ==
    [name |-> "notify", handlers |-> {"h1"}, users |-> {"alice"}, lists |-> {BreadOnly},
     texts |-> FALSE, ticks |-> FALSE, mail |-> TRUE, admin |-> FALSE, rest |-> TRUE, hour |-> 12, split |-> FALSE, cap |-> MaxOrders - 1, hits |-> Shaped]

\* The traffic under which one user orders through the chat and the catalog
\* service answers with rows of any shape.
Odd ==
    [name |-> "odd", handlers |-> {"h1"}, users |-> {"alice"}, lists |-> {BreadOnly, BreadAndMilk},
     texts |-> FALSE, ticks |-> FALSE, mail |-> FALSE, admin |-> FALSE, rest |-> FALSE, hour |-> 12, split |-> FALSE, cap |-> MaxOrders, hits |-> AnyShape]

\* The traffic under which progress of a turn is examined: one handler, one user,
\* chat turns and DELETE /orders, email goroutines not followed.
Stall ==
    [name |-> "stall", handlers |-> {"h1"}, users |-> {"alice"},
     lists |-> {<<>>, BreadOnly}, texts |-> TRUE, ticks |-> TRUE, mail |-> FALSE, admin |-> TRUE, rest |-> TRUE, hour |-> 12, split |-> FALSE, cap |-> MaxOrders, hits |-> Shaped]

\* ---------------------------------------------------------------- helpers
ToLowerChar(c) ==
    CASE c = "C" -> "c" [] c = "O" -> "o" [] c = "N" -> "n" [] c = "F" -> "f"
      [] c = "I" -> "i" [] c = "R" -> "r" [] c = "M" -> "m" [] OTHER -> c

ToLower(s) == [i \in 1..Len(s) |-> ToLowerChar(s[i])]

Contains(s, sub) ==
    \E i \in 1..(Len(s) - Len(sub) + 1) : SubSeq(s, i, i + Len(sub) - 1) = sub

\* Faulty variant: the first tier's bound is exclusive.
calculateTransportFeeExclusive(orderCountToday) ==
    IF orderCountToday < 3 THEN 1000
    ELSE IF orderCountToday <= 6 THEN 2000
    ELSE 3000

\* Faulty variant: the default tier repeats the first tier's amount.
calculateTransportFeeDefault(orderCountToday) ==
    IF orderCountToday <= 3 THEN 1000
    ELSE IF orderCountToday <= 6 THEN 2000
    ELSE 1000

calculateTransportFee(orderCountToday) ==
    IF orderCountToday <= 3 THEN 1000
    ELSE IF orderCountToday <= 6 THEN 2000
    ELSE 3000

\* handler.go 460-467: strings.HasPrefix(stripped, <three backquotes>), then
\* strings.SplitN(stripped, "\n", 3): with three parts the second one is kept.
StripFences(raw) ==
    IF Len(raw) > 0 /\ raw[1] \in {Fence, FenceJson} /\ Len(raw) >= 3
    THEN <<raw[2]>>
    ELSE raw

\* The elements of an array whose text is the lines ls (ls[1] = "[" ... "]").
Elements(ls) == [i \in 1..(Len(ls) - 2) |-> ls[i + 1].value[1]]

\* encoding/json into []parsedProduct: a quantity that is no number leaves the
\* field at its zero value and makes Unmarshal return an UnmarshalTypeError.
Decoded(list) ==
    [i \in 1..Len(list) |->
        IF "quantity" \in DOMAIN list[i] THEN list[i]
        ELSE [name |-> list[i].name, quantity |-> 0]]

\* json.Unmarshal([]byte(text), &parsedList): the error and the slice it leaves.
\* A text that is not valid JSON is rejected before anything is decoded.
Unmarshal(text) ==
    LET isArray == Len(text) = 1 /\ text[1].line = "array"
        isSpread ==
            /\ Len(text) >= 2
            /\ text[1] = Open
            /\ text[Len(text)] = Close
            /\ \A i \in 2..(Len(text) - 1) : text[i].line = "element"
        list == IF isArray THEN text[1].value ELSE IF isSpread THEN Elements(text) ELSE <<>>
    IN IF text = <<Null>> THEN [err |-> FALSE, list |-> <<>>]
       ELSE IF isArray \/ isSpread
            THEN [err |-> \E i \in 1..Len(list) : "quantity" \notin DOMAIN list[i],
                  list |-> Decoded(list)]
       ELSE [err |-> TRUE, list |-> <<>>]

\* Faulty variant: the slice Unmarshal left behind is used after an error.
parsedListPartial(raw) == Unmarshal(StripFences(raw)).list

\* handler.go 469-472: var parsedList []parsedProduct; on an Unmarshal error
\* parsedList = []parsedProduct{}.
parsedList(raw) ==
    LET r == Unmarshal(StripFences(raw)) IN IF r.err THEN <<>> ELSE r.list

\* No response has been parsed.
NotParsed == [done |-> FALSE, list |-> <<>>]

Reply(kind, name, amount) == [kind |-> kind, name |-> name, amount |-> amount]

NoReply == Reply("none", "", 0)

\* ---------------------------------------------------------------- state
VARIABLES
    orders,       \* committed rows of table orders: id -> row
    order_items,  \* committed rows of table order_items, in insertion order
    orderSeq,     \* last value handed out by the orders id sequence
    today,        \* the current day (time.Now() truncated to 24h)
    emails,       \* bag of the notification goroutines started so far
    running,      \* bag of the notification goroutines that have not ended
    delivered,    \* bag of the notifications the mailer has sent
    direct,       \* history: the orders that went from PENDING to CANCELLED
    h,            \* per handler goroutine: its position and its locals
    tx,           \* per handler goroutine: rows written in its open transaction
    traffic,      \* the scenario explored (fixed by Init)
    price_ugx,    \* column price_ugx of table items: item id -> current price
    feeN, feeM, feeOut,  \* arguments and result of the fee function (FeeSpec)
    phase1JSON, parsedOut, \* text and result of the response parsing (FenceSpec)
    ctxDone,      \* REST notifications whose request context has been cancelled
    ended         \* REST notification goroutines that returned, and how

vars ==
    <<orders, order_items, orderSeq, today, emails, running, delivered, direct, h, tx,
      traffic, price_ugx, feeN, feeM, feeOut, phase1JSON, parsedOut, ctxDone, ended>>

mailVars == <<emails, running, delivered>>

\* The scenario, the catalog and the variables of the fee function and of the
\* response parsing.
pureVars == <<traffic, price_ugx, feeN, feeM, feeOut, phase1JSON, parsedOut>>

otherVars == <<pureVars, ctxDone, ended>>

\* ---------------------------------------------------------------- tables
EmptyTable == [i \in {} |-> i]

Put(t, id, row) == [i \in DOMAIN t \cup {id} |-> IF i = id THEN row ELSE t[i]]

OrderRow(u, st, fee, total, day) ==
    [user_id |-> u, status |-> st, transport_fee |-> fee, total_cost |-> total,
     created_at |-> day]

\* Faulty variant: the line is stored without the price the catalog showed.
ItemRowUnpriced(o, item, q, price) ==
    [order_id |-> o, item_id |-> item, quantity |-> q, unit_price |-> 0]

ItemRow(o, item, q, price) ==
    [order_id |-> o, item_id |-> item, quantity |-> q, unit_price |-> price]

\* Faulty variant: the column takes any integer.
QuantityUnchecked(q) == q \in Int

\* The domain of column order_items.quantity: a positive integer.
QuantityCheck(q) == q >= 1

\* A cancellation that removes the row (DELETE FROM orders WHERE id = o)
\* instead of updating its status.
SetStatusDeleting(t, o, st) ==
    IF o \notin DOMAIN t THEN t
    ELSE IF st = "CANCELLED" THEN [x \in DOMAIN t \ {o} |-> t[x]]
    ELSE [t EXCEPT ![o].status = st]

\* UPDATE orders SET status = st WHERE id = o (no row matched: no change)
SetStatus(t, o, st) ==
    IF o \in DOMAIN t THEN [t EXCEPT ![o].status = st] ELSE t

\* Faulty variant: the UPDATE of the fee and the total is left out.
SetFeeTotalSkipped(t, o, fee, total) == t

\* UPDATE orders SET transport_fee = fee, total_cost = total WHERE id = o
SetFeeTotal(t, o, fee, total) ==
    IF o \in DOMAIN t
    THEN [t EXCEPT ![o].transport_fee = fee, ![o].total_cost = total]
    ELSE t

\* SELECT ... FROM order_items WHERE order_id = o
ItemsOf(o) == SelectSeq(order_items, LAMBDA row : row.order_id = o)

\* Faulty variant: the lines are priced at what the catalog shows now.
RECURSIVE SubtotalRepriced(_)
SubtotalRepriced(rows) ==
    IF rows = <<>> THEN 0
    ELSE Head(rows).quantity * price_ugx[Head(rows).item_id] + SubtotalRepriced(Tail(rows))

RECURSIVE Subtotal(_)
Subtotal(rows) ==
    IF rows = <<>> THEN 0
    ELSE Head(rows).quantity * Head(rows).unit_price + Subtotal(Tail(rows))

Max(S) == CHOOSE x \in S : \A y \in S : y <= x

\* SELECT id FROM orders WHERE user_id = u AND status = 'PENDING'
PendingOf(u) ==
    {o \in DOMAIN orders : orders[o].user_id = u /\ orders[o].status = "PENDING"}

\* The user's orders that are CONFIRMED.
ConfirmedOf(u) ==
    {o \in DOMAIN orders : orders[o].user_id = u /\ orders[o].status = "CONFIRMED"}

\* Faulty variant: the lookup does not filter on status = 'PENDING'.
LookupAnyStatus(u) ==
    LET mine == {o \in DOMAIN orders :
                    orders[o].user_id = u /\ orders[o].status \in {"PENDING", "CONFIRMED"}}
    IN IF mine = {} THEN NoOrder ELSE Max(mine)

\* Faulty variant: the lookup does not filter on user_id = $1.
LookupAnyUser(u) ==
    LET any == {o \in DOMAIN orders : orders[o].status = "PENDING"}
    IN IF any = {} THEN NoOrder ELSE Max(any)

\*  ... ORDER BY created_at DESC LIMIT 1   (NoOrder for sql.ErrNoRows)
LookupPending(u) == IF PendingOf(u) = {} THEN NoOrder ELSE Max(PendingOf(u))

\* SELECT COUNT(*) FROM orders WHERE user_id=$1 AND created_at >= $2
CountToday(u) ==
    Cardinality({o \in DOMAIN orders :
        orders[o].user_id = u /\ orders[o].created_at >= today})

\* SELECT COUNT(*) FROM orders WHERE user_id = u AND status = 'CONFIRMED'
\*  AND created_at >= today
CountConfirmedToday(u) ==
    Cardinality({o \in DOMAIN orders :
        /\ orders[o].user_id = u
        /\ orders[o].status = "CONFIRMED"
        /\ orders[o].created_at >= today})

Email(kind, o) == [kind |-> kind, order_id |-> o]

\* Faulty variant: a cancellation is sent twice.
DispatchTwice(kind, o) ==
    IF kind = "cancellation"
    THEN emails (+) SetToBag({Email(kind, o)}) (+) SetToBag({Email(kind, o)})
    ELSE emails (+) SetToBag({Email(kind, o)})

Dispatch(kind, o) == emails (+) SetToBag({Email(kind, o)})

\* go func(...) {...}(pendingOrderID, userID, ...): the goroutine starts.
Go(kind, o) ==
    /\ emails' = Dispatch(kind, o)
    /\ running' = running (+) SetToBag({Email(kind, o)})
    /\ UNCHANGED delivered

\* ---------------------------------------------------------------- transactions
NoTx == [orders |-> EmptyTable, items |-> <<>>]

\* tx.Commit(): the buffered rows become committed rows.
CommitOrders(p) ==
    [i \in DOMAIN orders \cup DOMAIN tx[p].orders |->
        IF i \in DOMAIN tx[p].orders THEN tx[p].orders[i] ELSE orders[i]]

CommitItems(p) == order_items \o tx[p].items

\* Faulty variant: the order row was inserted on db, not on tx, and survives Rollback.
RollbackKeepsOrder(p) == CommitOrders(p)

\* Faulty variant: the lines were inserted on db, not on tx, and survive Rollback.
RollbackKeepsItems(p) == CommitItems(p)

\* tx.Rollback(): the buffered rows are discarded.
RollbackOrders(p) == orders

RollbackItems(p) == order_items

\* ---------------------------------------------------------------- handlers
\* A handler goroutine that serves no request.
Idle ==
    [pc |-> "idle", userID |-> "", text |-> <<>>, pendingOrderID |-> NoOrder,
     seenConfirmed |-> {}, parsedList |-> <<>>, idx |-> 0, newOrderID |-> NoOrder,
     orderID |-> NoOrder,
     confirmedItems |-> <<>>, totalSubtotal |-> 0, confirmedCount |-> 0,
     Items |-> <<>>, transportFee |-> 0, totalCost |-> 0,
     geminiCalls |-> 0, mcpCalls |-> 0, touched |-> {}, parseErr |-> FALSE,
     afterCutoff |-> FALSE,
     outcome |-> "none", reply |-> NoReply]

\* The handler has written its response and is about to return; of its
\* locals only the ids it worked on and the calls it made are kept.
Responded(f, oc, r) ==
    [Idle EXCEPT !.pc = "done", !.userID = f.userID,
                 !.pendingOrderID = f.pendingOrderID, !.newOrderID = f.newOrderID,
                 !.idx = f.idx, !.orderID = f.orderID, !.geminiCalls = f.geminiCalls, !.mcpCalls = f.mcpCalls,
                 !.touched = f.touched, !.parseErr = f.parseErr,
                 !.afterCutoff = f.afterCutoff, !.outcome = oc, !.reply = r]

InternalError == Reply("internal error", "", 0)

GeminiError == Reply("internal error contacting Gemini", "", 0)

OffTopic ==
    Reply("Sorry, we cannot help you with that, our goal is to take orders and deliveries.", "", 0)

NotAvailable(name) == Reply("That product is not available at the moment.", name, 0)

Confirmed == Reply("Your order has been confirmed! We'll see you at 18:00 at F2 17.", "", 0)

Cancelled ==
    Reply("Your order has been cancelled. If you need anything else, just let me know.", "", 0)

NoContent == Reply("204 No Content", "", 0)

Summary(subtotal) == Reply("Do you confirm the contents of this order?", "", subtotal)

\* Ids the orders sequence still owes to handlers that are about to insert.
Reserved == Cardinality({q \in Procs : h[q].pc \in {"phase2", "create_begin"}})

NoFee == [ofN |-> 0, ofM |-> 0]

Init ==
    /\ traffic \in Scenarios
    /\ orders = EmptyTable
    /\ order_items = <<>>
    /\ orderSeq = 0
    /\ today = 0
    /\ direct = {}
    /\ emails = EmptyBag
    /\ running = EmptyBag
    /\ delivered = EmptyBag
    /\ h = [p \in Procs |-> Idle]
    /\ tx = [p \in Procs |-> NoTx]
    /\ price_ugx = [i \in ItemIds |-> ListPrice(i)]
    /\ feeN = 0
    /\ feeM = 0
    /\ feeOut = NoFee
    /\ phase1JSON = <<>>
    /\ parsedOut = NotParsed
    /\ ctxDone = {}
    /\ ended = {}

\* The orders that statement orders -> t2 takes from PENDING to CANCELLED.
Dropped(t2) ==
    {o \in DOMAIN orders \cap DOMAIN t2 :
        orders[o].status = "PENDING" /\ t2[o].status = "CANCELLED"}

\* Rows of table t2 that are new or differ from table t.
Changed(t, t2) == {o \in DOMAIN t2 : o \notin DOMAIN t \/ t2[o] # t[o]}

\* The frame after a statement of the handler has turned orders into t2: the
\* orders the turn has changed so far are recorded.
Touch(f, t2) == [f EXCEPT !.touched = @ \cup Changed(orders, t2)]

\* ---------------------------------------------------------------- /chat/prompt
\* The users whose requests goroutine p serves (auth.ContextUserIDKey).
Serves(p) ==
    IF traffic.split THEN (IF p = "h1" THEN {"alice"} ELSE {"bob"}) ELSE traffic.users

isConfirmation(t) == Contains(ToLower(t), KwConfirm)

isCancellation(t) == Contains(ToLower(t), KwCancel) \/ Contains(ToLower(t), KwCancelled)

\* Faulty variant: isCancellation is tested before isConfirmation.
BranchCancelFirst(pending, t) ==
    IF pending = NoOrder THEN "phase1"
    ELSE IF isCancellation(t) THEN "cancel1"
    ELSE IF isConfirmation(t) THEN "confirm1"
    ELSE "silent"

\* Faulty variant: the keywords are looked for before hasPending is tested.
BranchKeywordsFirst(pending, t) ==
    IF isConfirmation(t) THEN "confirm1"
    ELSE IF isCancellation(t) THEN "cancel1"
    ELSE IF pending = NoOrder THEN "phase1"
    ELSE "silent"

\* The branch taken after STEP A.
Branch(pending, t) ==
    IF pending = NoOrder THEN "phase1"
    ELSE IF isConfirmation(t) THEN "confirm1"
    ELSE IF isCancellation(t) THEN "cancel1"
    ELSE "silent"

\* handler.go 170-227: authenticate, decode the body, look up the user's
\* pending order (STEP A) and classify the text.
StepA(p) ==
    /\ h[p].pc = "idle"
    /\ p \in traffic.handlers
    /\ \E u \in Serves(p), body \in Messages \cup {InvalidBody} :
        LET f == [Idle EXCEPT !.userID = u] IN
        \/ /\ body = InvalidBody
           /\ h' = [h EXCEPT ![p] =
                 Responded(f, "invalid_json", Reply("invalid JSON payload", "", 0))]
        \/ /\ body # InvalidBody
           /\ h' = [h EXCEPT ![p] = Responded(f, "lookup_failed", InternalError)]
        \/ /\ body # InvalidBody
           /\ h' = [h EXCEPT ![p] =
                 [f EXCEPT !.pc = Branch(LookupPending(u), body),
                           !.text = body,
                           !.pendingOrderID = LookupPending(u),
                           !.seenConfirmed = ConfirmedOf(u)]]
    /\ UNCHANGED <<orders, order_items, orderSeq, today, direct, mailVars, tx, otherVars>>

\* handler.go 229-236: UPDATE orders SET status='CONFIRMED' WHERE id = pendingOrderID
Confirm1(p) ==
    /\ h[p].pc = "confirm1"
    /\ \/ /\ h' = [h EXCEPT ![p] = Responded(@, "confirm_failed", InternalError)]
          /\ UNCHANGED orders
       \/ /\ orders' = SetStatus(orders, h[p].pendingOrderID, "CONFIRMED")
          /\ h' = [h EXCEPT ![p] = [Touch(@, orders') EXCEPT !.pc = "confirm2"]]
    /\ UNCHANGED <<order_items, orderSeq, today, direct, mailVars, tx, otherVars>>

\* handler.go 238-266: read the order's lines and add up quantity * unit_price;
\* count today's CONFIRMED orders of the user (a failed count leaves
\* confirmedCount at 0: the Scan error is dropped), then add one.
Confirm2(p) ==
    /\ h[p].pc = "confirm2"
    /\ \/ h' = [h EXCEPT ![p] = Responded(@, "items_query_failed", InternalError)]
       \/ \E c \in {0, CountConfirmedToday(h[p].userID)} :
            h' = [h EXCEPT ![p].pc = "confirm3",
                           ![p].totalSubtotal = Subtotal(ItemsOf(h[p].pendingOrderID)),
                           ![p].confirmedCount = c + 1]
    /\ UNCHANGED <<orders, order_items, orderSeq, today, direct, mailVars, tx, otherVars>>

transportFee(f) == calculateTransportFee(f.confirmedCount)

totalCost(f) == f.totalSubtotal + transportFee(f)

\* handler.go 267-340: write transport_fee and total_cost (a failure is logged
\* and ignored), start the confirmation email goroutine.
Confirm3(p) ==
    /\ h[p].pc = "confirm3"
    /\ \/ UNCHANGED orders
       \/ orders' = SetFeeTotal(orders, h[p].pendingOrderID, transportFee(h[p]), totalCost(h[p]))
    /\ Go("confirmation", h[p].pendingOrderID)
    /\ h' = [h EXCEPT ![p] = [Touch(@, orders') EXCEPT !.pc = "confirm4"]]
    /\ UNCHANGED <<order_items, orderSeq, today, direct, tx, otherVars>>

\* handler.go 342-347: the confirmation reply.
ConfirmReply(p) ==
    /\ h[p].pc = "confirm4"
    /\ h' = [h EXCEPT ![p] = Responded(@, "confirmed", Confirmed)]
    /\ UNCHANGED <<orders, order_items, orderSeq, today, direct, mailVars, tx, otherVars>>

\* handler.go 350-379: UPDATE orders SET status='CANCELLED', start the
\* cancellation email goroutine.
Cancel1(p) ==
    /\ h[p].pc = "cancel1"
    /\ \/ /\ h' = [h EXCEPT ![p] = Responded(@, "cancel_failed", InternalError)]
          /\ UNCHANGED <<orders, mailVars>>
       \/ /\ orders' = SetStatus(orders, h[p].pendingOrderID, "CANCELLED")
          /\ Go("cancellation", h[p].pendingOrderID)
          /\ h' = [h EXCEPT ![p] = [Touch(@, orders') EXCEPT !.pc = "cancel2"]]
    /\ direct' = direct \cup Dropped(orders')
    /\ UNCHANGED <<order_items, orderSeq, today, tx, otherVars>>

\* handler.go 381-385: the cancellation reply.
CancelReply(p) ==
    /\ h[p].pc = "cancel2"
    /\ h' = [h EXCEPT ![p] = Responded(@, "cancelled", Cancelled)]
    /\ UNCHANGED <<orders, order_items, orderSeq, today, direct, mailVars, tx, otherVars>>

\* Faulty variant: the silent cancel starts a cancellation email as the
\* cancel branch does.
SilentCancelNotifying(p) ==
    /\ h[p].pc = "silent"
    /\ \/ UNCHANGED <<orders, mailVars>>
       \/ /\ orders' = SetStatus(orders, h[p].pendingOrderID, "CANCELLED")
          /\ Go("cancellation", h[p].pendingOrderID)
    /\ h' = [h EXCEPT ![p] = [Touch(@, orders') EXCEPT !.pc = "phase1"]]
    /\ direct' = direct \cup Dropped(orders')
    /\ UNCHANGED <<order_items, orderSeq, today, tx, otherVars>>

\* handler.go 388-393: neither keyword: cancel the stale draft, result dropped.
SilentCancel(p) ==
    /\ h[p].pc = "silent"
    /\ \/ UNCHANGED orders
       \/ orders' = SetStatus(orders, h[p].pendingOrderID, "CANCELLED")
    /\ h' = [h EXCEPT ![p] = [Touch(@, orders') EXCEPT !.pc = "phase1"]]
    /\ direct' = direct \cup Dropped(orders')
    /\ UNCHANGED <<order_items, orderSeq, today, mailVars, tx, otherVars>>

\* Faulty variant: the empty list is not turned away.
NothingRecognizedIgnored(list) == FALSE

\* handler.go 475: if len(parsedList) == 0 { ... off-topic reply; return }
NothingRecognized(list) == Len(list) = 0

\* The frame after one GenerateContentStream call has been issued.
Asked(f) == [f EXCEPT !.geminiCalls = @ + 1]

\* The frame after the response raw has gone through json.Unmarshal.
Parsed(f, raw) == [f EXCEPT !.parseErr = Unmarshal(StripFences(raw)).err]

\* handler.go 398-482: the extraction call (it ends with an answer, or with an
\* error when the 15 s context expires), the stripping of fences and the parse
\* of its output.
Phase1(p) ==
    /\ h[p].pc = "phase1"
    /\ \/ h' = [h EXCEPT ![p] = Responded(Asked(@), "gemini_error", GeminiError)]
       \/ \E raw \in (IF traffic.texts THEN Outputs(traffic.lists)
                                      ELSE BareOutputs(traffic.lists)) :
            IF NothingRecognized(parsedList(raw))
            THEN h' = [h EXCEPT ![p] = Responded(Parsed(Asked(@), raw), "off_topic", OffTopic)]
            ELSE /\ orderSeq + Reserved < traffic.cap
                 /\ h' = [h EXCEPT ![p] =
                       [Parsed(Asked(@), raw) EXCEPT !.pc = "phase2",
                                                    !.parsedList = parsedList(raw),
                                                    !.text = <<>>]]
    /\ UNCHANGED <<orders, order_items, orderSeq, today, direct, mailVars, tx, otherVars>>

\* handler.go 484-510: BeginTx, INSERT INTO orders (..., 'PENDING', 0, 0, NOW());
\* the loop over parsedList follows (no iteration for an empty list).
Phase2Begin(p) ==
    /\ h[p].pc = "phase2"
    /\ \/ /\ h' = [h EXCEPT ![p] = Responded(@, "begin_failed", InternalError)]
          /\ UNCHANGED <<orderSeq, tx>>
       \/ /\ h' = [h EXCEPT ![p] = Responded(@, "insert_order_failed", InternalError)]
          /\ UNCHANGED <<orderSeq, tx>>
       \/ /\ orderSeq' = orderSeq + 1
          /\ tx' = [tx EXCEPT ![p].orders =
                Put(EmptyTable, orderSeq + 1, OrderRow(h[p].userID, "PENDING", 0, 0, today))]
          /\ h' = [h EXCEPT ![p].pc = IF Len(h[p].parsedList) = 0 THEN "commit" ELSE "mcp",
                            ![p].newOrderID = orderSeq + 1]
    /\ UNCHANGED <<orders, order_items, today, direct, mailVars, otherVars>>

\* The handler leaves Phase 2 through tx.Rollback().
Abort(p, oc, r) ==
    /\ orders' = RollbackOrders(p)
    /\ order_items' = RollbackItems(p)
    /\ tx' = [tx EXCEPT ![p] = NoTx]
    /\ h' = [h EXCEPT ![p] = Responded(Touch(@, orders'), oc, r)]

\* handler.go 510-518: the next iteration of the loop over parsedList starts:
\* http.Post of the catalog query for the line (no timeout, tx open).
McpSend(p) ==
    /\ h[p].pc = "mcp"
    /\ h' = [h EXCEPT ![p].pc = "mcp_wait", ![p].mcpCalls = @ + 1]
    /\ UNCHANGED <<orders, order_items, orderSeq, today, direct, mailVars, tx, otherVars>>

\* Faulty variant: after a failed request the loop asks the catalog again.
RetryRequest(p) ==
    /\ h' = [h EXCEPT ![p].pc = "mcp"]
    /\ UNCHANGED <<orders, order_items, tx>>

\* handler.go 519-524: http.Post returned an error.
OnRequestFailed(p) == Abort(p, "mcp_request_failed", InternalError)

\* handler.go 519-583: http.Post has returned: the decode of the response, the
\* availability check, the INSERT of the line.
\* handler.go 567: row["id"].(float64) on a value that is not a float64
\* panics; no deferred call rolls back, net/http recovers the panic and
\* closes the connection without a reply.
Panic(p) ==
    /\ h' = [h EXCEPT ![p] = Responded(@, "panicked", NoReply)]
    /\ UNCHANGED <<orders, order_items, tx>>

McpRecv(p) ==
    /\ h[p].pc = "mcp_wait"
    /\ LET line == h[p].parsedList[h[p].idx + 1]
           last == h[p].idx + 1 = Len(h[p].parsedList)
       IN
       \/ OnRequestFailed(p)
       \/ Abort(p, "mcp_decode_failed", InternalError)
       \/ Abort(p, "not_available", NotAvailable(line.name))
       \/ Abort(p, "insert_item_failed", InternalError)
       \/ \E row \in traffic.hits :
          LET price == IF row = "no price" THEN 0 ELSE price_ugx[ItemIdOf(line.name)] IN
          IF row = "no id" THEN Panic(p) ELSE
            /\ QuantityCheck(line.quantity)
            /\ tx' = [tx EXCEPT ![p].items = Append(@,
                  ItemRow(h[p].newOrderID, ItemIdOf(line.name), line.quantity, price))]
            /\ h' = [h EXCEPT ![p].pc = IF last THEN "commit" ELSE "mcp",
                              ![p].idx = @ + 1,
                              ![p].confirmedItems = Append(@,
                                  [name |-> line.name, quantity |-> line.quantity,
                                   unit_price |-> price]),
                              ![p].totalSubtotal = @ + price * line.quantity]
            /\ UNCHANGED <<orders, order_items>>
    /\ UNCHANGED <<orderSeq, today, direct, mailVars, otherVars>>

\* handler.go 585-607: tx.Commit() and the hand-built summary.
Commit(p) ==
    /\ h[p].pc = "commit"
    /\ \/ Abort(p, "commit_failed", InternalError)
       \/ /\ orders' = CommitOrders(p)
          /\ order_items' = CommitItems(p)
          /\ tx' = [tx EXCEPT ![p] = NoTx]
          /\ h' = [h EXCEPT ![p] =
                Responded(Touch(@, orders'), "summary", Summary(h[p].totalSubtotal))]
    /\ UNCHANGED <<orderSeq, today, direct, mailVars, otherVars>>

\* ---------------------------------------------------------------- DELETE /orders
\* part_010 374-415 with the ownership check of 402-405 left out.
VerdictUnowned(u, id, afterCutoff) ==
    IF id = NoOrder THEN "order id is required"
    ELSE IF id \notin DOMAIN orders THEN "order not found"
    ELSE IF orders[id].status \notin {"PENDING", "CONFIRMED"}
         THEN "order cannot be cancelled"
    ELSE IF afterCutoff THEN "cancellation window closed"
    ELSE "ok"

\* part_010 374-415: the checks of handleCancelOrder in the order of the code:
\* ?id= given, the order exists, the caller owns it, its status is PENDING or
\* CONFIRMED, and the time is not after 17:00 (afterCutoff: now.After(cutoff)).
Verdict(u, id, afterCutoff) ==
    IF id = NoOrder THEN "order id is required"
    ELSE IF id \notin DOMAIN orders THEN "order not found"
    ELSE IF orders[id].user_id # u THEN "not authorized"
    ELSE IF orders[id].status \notin {"PENDING", "CONFIRMED"}
         THEN "order cannot be cancelled"
    ELSE IF afterCutoff THEN "cancellation window closed"
    ELSE "ok"

\* part_010 369-415: read the order's owner and status (the SELECT may fail
\* with a database error) and answer with the verdict of the checks.
handleCancelOrder(p) ==
    /\ h[p].pc = "idle"
    /\ p \in traffic.handlers
    /\ traffic.rest
    /\ \E u \in Serves(p), id \in {NoOrder} \cup (1..MaxOrders), afterCutoff \in BOOLEAN :
        LET f == [Idle EXCEPT !.userID = u, !.orderID = id, !.afterCutoff = afterCutoff]
            answer == Verdict(u, id, afterCutoff)
        IN
        \/ /\ id # NoOrder
           /\ h' = [h EXCEPT ![p] = Responded(f, "rest_rejected", Reply("database error", "", 0))]
        \/ /\ answer # "ok"
           /\ h' = [h EXCEPT ![p] = Responded(f, "rest_rejected", Reply(answer, "", 0))]
        \/ /\ answer = "ok"
           /\ h' = [h EXCEPT ![p] = [f EXCEPT !.pc = "rest_cancel"]]
    /\ UNCHANGED <<orders, order_items, orderSeq, today, direct, mailVars, tx, otherVars>>

\* part_010 417-449: UPDATE orders SET status='CANCELLED' WHERE id=$1, start
\* the cancellation email goroutine, 204.
CancelUpdate(p) ==
    /\ h[p].pc = "rest_cancel"
    /\ \/ /\ h' = [h EXCEPT ![p] =
                Responded(@, "rest_rejected", Reply("failed to cancel order", "", 0))]
          /\ UNCHANGED <<orders, mailVars>>
       \/ /\ orders' = SetStatus(orders, h[p].orderID, "CANCELLED")
          /\ Go("cancellation", h[p].orderID)
          /\ h' = [h EXCEPT ![p] = Responded(Touch(@, orders'), "rest_cancelled", NoContent)]
    /\ direct' = direct \cup Dropped(orders')
    /\ UNCHANGED <<order_items, orderSeq, today, tx, otherVars>>

\* ---------------------------------------------------------------- GET /orders
\* The user's orders with the given status ("" for any).
Listed(u, q) ==
    {o \in DOMAIN orders : orders[o].user_id = u /\ (q = "" \/ orders[o].status = q)}

\* part_010 257-366: list the user's orders and their lines; nothing is written.
handleListOrders(p) ==
    /\ h[p].pc = "idle"
    /\ p \in traffic.handlers
    /\ traffic.rest
    /\ \E u \in Serves(p), q \in {"", "CONFIRMED"} :
        LET f == [Idle EXCEPT !.userID = u] IN
        \/ h' = [h EXCEPT ![p] =
                Responded(f, "rest_rejected", Reply("database query error", "", 0))]
        \/ h' = [h EXCEPT ![p] =
                Responded(f, "rest_listed", Reply("200 OK", "", Cardinality(Listed(u, q))))]
    /\ UNCHANGED <<orders, order_items, orderSeq, today, direct, mailVars, tx, otherVars>>

\* ---------------------------------------------------------------- POST /orders
\* part_010 78-104: decode the body, refuse an empty item list, count the
\* user's orders of today and derive the fee.
handleCreateOrder(p) ==
    /\ h[p].pc = "idle"
    /\ p \in traffic.handlers
    /\ traffic.rest
    /\ \E u \in Serves(p), req \in CreateRequests :
        LET f == [Idle EXCEPT !.userID = u] IN
        \/ h' = [h EXCEPT ![p] =
                Responded(f, "rest_rejected", Reply("invalid JSON payload", "", 0))]
        \/ /\ Len(req) = 0
           /\ h' = [h EXCEPT ![p] =
                Responded(f, "rest_rejected",
                          Reply("order must contain at least one item", "", 0))]
        \/ /\ Len(req) > 0
           /\ h' = [h EXCEPT ![p] = Responded(f, "rest_rejected", InternalError)]
        \/ /\ Len(req) > 0
           /\ orderSeq + Reserved < traffic.cap
           /\ h' = [h EXCEPT ![p] =
                [f EXCEPT !.pc = "create_begin", !.Items = req,
                          !.transportFee = calculateTransportFee(CountToday(u) + 1)]]
    /\ UNCHANGED <<orders, order_items, orderSeq, today, direct, mailVars, tx, otherVars>>

\* part_010 106-127: BeginTx (defer tx.Rollback()), INSERT INTO orders
\* (user_id, status, transport_fee, total_cost) VALUES (u, 'CONFIRMED', fee, fee).
CreateBegin(p) ==
    /\ h[p].pc = "create_begin"
    /\ \/ /\ h' = [h EXCEPT ![p] = Responded(@, "rest_rejected", InternalError)]
          /\ UNCHANGED <<orderSeq, tx>>
       \/ /\ orderSeq' = orderSeq + 1
          /\ tx' = [tx EXCEPT ![p].orders =
                Put(EmptyTable, orderSeq + 1,
                    OrderRow(h[p].userID, "CONFIRMED", h[p].transportFee,
                             h[p].transportFee, today))]
          /\ h' = [h EXCEPT ![p].pc = "create_line", ![p].orderID = orderSeq + 1,
                            ![p].totalCost = h[p].transportFee]
    /\ UNCHANGED <<orders, order_items, today, direct, mailVars, otherVars>>

\* part_010 131-170: one iteration of the loop over req.Items (Items holds the
\* items still to come): read the item's name and price (only available items),
\* INSERT INTO order_items.
CreateLine(p) ==
    /\ h[p].pc = "create_line"
    /\ LET it == Head(h[p].Items)
           last == Len(h[p].Items) = 1
       IN
       \/ Abort(p, "rest_rejected", Reply("item not available", "", it.ItemID))
       \/ Abort(p, "rest_rejected", InternalError)
       \/ /\ it.ItemID \in ItemIds
          /\ QuantityCheck(it.Quantity)
          /\ LET unitPrice == price_ugx[it.ItemID] IN
             /\ tx' = [tx EXCEPT ![p].items = Append(@,
                   ItemRow(h[p].orderID, it.ItemID, it.Quantity, unitPrice))]
             /\ h' = [h EXCEPT ![p].pc = IF last THEN "create_commit" ELSE "create_line",
                               ![p].Items = Tail(@),
                               ![p].totalCost = @ + unitPrice * it.Quantity]
          /\ UNCHANGED <<orders, order_items>>
    /\ UNCHANGED <<orderSeq, today, direct, mailVars, otherVars>>

\* part_010 172-241: UPDATE orders SET total_cost, tx.Commit(), start the
\* confirmation email goroutine, 201 with the order.
CreateCommit(p) ==
    /\ h[p].pc = "create_commit"
    /\ \/ /\ Abort(p, "rest_rejected", InternalError)
          /\ UNCHANGED mailVars
       \/ /\ orders' = SetFeeTotal(CommitOrders(p), h[p].orderID,
                                    h[p].transportFee, h[p].totalCost)
          /\ order_items' = CommitItems(p)
          /\ tx' = [tx EXCEPT ![p] = NoTx]
          /\ Go("order confirmation", h[p].orderID)
          /\ h' = [h EXCEPT ![p] =
                Responded(Touch(@, orders'), "rest_created",
                          Reply("201 Created", "", h[p].totalCost))]
    /\ UNCHANGED <<orderSeq, today, direct, otherVars>>

\* The notification goroutine that the request of frame f started with the
\* request's context (part_010 189-192, 427-430), if it has not ended; kept
\* track of under the traffic whose notification goroutines are followed.
Detached(f) ==
    {e \in BagToSet(running) :
        /\ traffic.mail
        /\ e.order_id = f.orderID
        /\ \/ f.outcome = "rest_created" /\ e.kind = "order confirmation"
           \/ f.outcome = "rest_cancelled" /\ e.kind = "cancellation"}

\* The handler function returns; net/http then cancels the request's context
\* (part_010 78, 370: ctx := r.Context()), and database/sql rolls back a
\* transaction begun with it (handler.go 485, part_010 107) that is still open.
Return(p) ==
    /\ h[p].pc = "done"
    /\ h' = [h EXCEPT ![p] = Idle]
    /\ tx' = [tx EXCEPT ![p] = NoTx]
    /\ ctxDone' = ctxDone \cup Detached(h[p])
    /\ UNCHANGED <<orders, order_items, orderSeq, today, direct, mailVars, pureVars, ended>>

\* The process exits: no request in flight gets a reply, the connections close
\* and the database rolls back every open transaction, no goroutine is left.
Crash ==
    /\ h' = [p \in Procs |->
                IF h[p].pc \in {"idle", "done"} THEN h[p]
                ELSE [Idle EXCEPT !.pc = "done", !.outcome = "crashed"]]
    /\ tx' = [p \in Procs |-> NoTx]
    /\ running' = EmptyBag
    /\ UNCHANGED <<orders, order_items, orderSeq, today, direct, emails, delivered, otherVars>>

\* The goroutine ends and leaves the handlers and the store as they are.
Ended(e) ==
    /\ running' = running (-) SetToBag({e})
    /\ UNCHANGED <<orders, order_items, orderSeq, today, direct, emails, h, tx, otherVars>>

\* handler.go 282-340 and 361-379: the email goroutine of a confirm or cancel
\* turn: the user lookup (on error: log, return), for a confirmation the query
\* of the order's lines (error dropped, itemRows is nil and itemRows.Next()
\* panics in the goroutine), the send (on error: log).
EmailTask ==
    /\ traffic.mail
    /\ \E e \in BagToSet(running) :
        \/ Ended(e) /\ UNCHANGED delivered
        \/ e.kind = "confirmation" /\ Crash
        \/ Ended(e) /\ delivered' = delivered (+) SetToBag({e})

\* part_010 600-630: the admin gives an item another price
\* (UPDATE items SET ..., price_ugx=$3, ... WHERE id=$5).
handleUpdateItem ==
    /\ traffic.admin
    /\ \E id \in ItemIds : \E PriceUGX \in PricesOf(id) :
        /\ PriceUGX # price_ugx[id]
        /\ price_ugx' = [price_ugx EXCEPT ![id] = PriceUGX]
    /\ UNCHANGED <<orders, order_items, orderSeq, today, direct, mailVars, h, tx,
                   traffic, feeN, feeM, feeOut, phase1JSON, parsedOut, ctxDone, ended>>

\* Midnight passes.
Tick ==
    /\ traffic.ticks
    /\ today < MaxDay
    /\ today' = today + 1
    /\ UNCHANGED <<direct, orders, order_items, orderSeq, mailVars, h, tx, otherVars>>

Next ==
    \/ \E p \in Procs : StepA(p)
    \/ \E p \in Procs : Confirm1(p)
    \/ \E p \in Procs : Confirm2(p)
    \/ \E p \in Procs : Confirm3(p)
    \/ \E p \in Procs : ConfirmReply(p)
    \/ \E p \in Procs : Cancel1(p)
    \/ \E p \in Procs : CancelReply(p)
    \/ \E p \in Procs : SilentCancel(p)
    \/ \E p \in Procs : Phase1(p)
    \/ \E p \in Procs : Phase2Begin(p)
    \/ \E p \in Procs : McpSend(p)
    \/ \E p \in Procs : McpRecv(p)
    \/ \E p \in Procs : Commit(p)
    \/ \E p \in Procs : Return(p)
    \/ \E p \in Procs : handleCancelOrder(p)
    \/ \E p \in Procs : CancelUpdate(p)
    \/ \E p \in Procs : handleListOrders(p)
    \/ \E p \in Procs : handleCreateOrder(p)
    \/ \E p \in Procs : CreateBegin(p)
    \/ \E p \in Procs : CreateLine(p)
    \/ \E p \in Procs : CreateCommit(p)
    \/ EmailTask
    \/ handleUpdateItem
    \/ Tick

Spec == Init /\ [][Next]_vars

\* ---------------------------------------------------------------- two users
\* The server under the Pair traffic.
PairInit ==
    /\ traffic = Pair
    /\ orders = EmptyTable
    /\ order_items = <<>>
    /\ orderSeq = 0
    /\ today = 0
    /\ direct = {}
    /\ emails = EmptyBag
    /\ running = EmptyBag
    /\ delivered = EmptyBag
    /\ h = [p \in Procs |-> Idle]
    /\ tx = [p \in Procs |-> NoTx]
    /\ price_ugx = [i \in ItemIds |-> ListPrice(i)]
    /\ feeN = 0
    /\ feeM = 0
    /\ feeOut = NoFee
    /\ phase1JSON = <<>>
    /\ parsedOut = NotParsed
    /\ ctxDone = {}
    /\ ended = {}

\* The steps of the request handlers.
PairNext ==
    \/ \E p \in Procs : StepA(p)
    \/ \E p \in Procs : Confirm1(p)
    \/ \E p \in Procs : Confirm2(p)
    \/ \E p \in Procs : Confirm3(p)
    \/ \E p \in Procs : ConfirmReply(p)
    \/ \E p \in Procs : Cancel1(p)
    \/ \E p \in Procs : CancelReply(p)
    \/ \E p \in Procs : SilentCancel(p)
    \/ \E p \in Procs : Phase1(p)
    \/ \E p \in Procs : Phase2Begin(p)
    \/ \E p \in Procs : McpSend(p)
    \/ \E p \in Procs : McpRecv(p)
    \/ \E p \in Procs : Commit(p)
    \/ \E p \in Procs : Return(p)
    \/ \E p \in Procs : handleCancelOrder(p)
    \/ \E p \in Procs : CancelUpdate(p)
    \/ \E p \in Procs : handleListOrders(p)
    \/ \E p \in Procs : handleCreateOrder(p)
    \/ \E p \in Procs : CreateBegin(p)
    \/ \E p \in Procs : CreateLine(p)
    \/ \E p \in Procs : CreateCommit(p)

PairSpec == PairInit /\ [][PairNext]_vars

\* ---------------------------------------------------------------- /orders alone
\* The server under the Bulk traffic.
BulkInit ==
    /\ traffic = Bulk
    /\ orders = EmptyTable
    /\ order_items = <<>>
    /\ orderSeq = 0
    /\ today = 0
    /\ direct = {}
    /\ emails = EmptyBag
    /\ running = EmptyBag
    /\ delivered = EmptyBag
    /\ h = [p \in Procs |-> Idle]
    /\ tx = [p \in Procs |-> NoTx]
    /\ price_ugx = [i \in ItemIds |-> ListPrice(i)]
    /\ feeN = 0
    /\ feeM = 0
    /\ feeOut = NoFee
    /\ phase1JSON = <<>>
    /\ parsedOut = NotParsed
    /\ ctxDone = {}
    /\ ended = {}

\* The steps of the handlers of POST and DELETE /orders.
BulkNext ==
    \/ \E p \in Procs : handleCreateOrder(p)
    \/ \E p \in Procs : CreateBegin(p)
    \/ \E p \in Procs : CreateLine(p)
    \/ \E p \in Procs : CreateCommit(p)
    \/ \E p \in Procs : handleCancelOrder(p)
    \/ \E p \in Procs : CancelUpdate(p)
    \/ \E p \in Procs : Return(p)

BulkSpec == BulkInit /\ [][BulkNext]_vars

\* ---------------------------------------------------------------- catalog rows of any shape
\* The server under the Odd traffic.
ShapeInit ==
    /\ traffic = Odd
    /\ orders = EmptyTable
    /\ order_items = <<>>
    /\ orderSeq = 0
    /\ today = 0
    /\ direct = {}
    /\ emails = EmptyBag
    /\ running = EmptyBag
    /\ delivered = EmptyBag
    /\ h = [p \in Procs |-> Idle]
    /\ tx = [p \in Procs |-> NoTx]
    /\ price_ugx = [i \in ItemIds |-> ListPrice(i)]
    /\ feeN = 0
    /\ feeM = 0
    /\ feeOut = NoFee
    /\ phase1JSON = <<>>
    /\ parsedOut = NotParsed
    /\ ctxDone = {}
    /\ ended = {}

\* The steps of an ordering turn of the chat handler.
ShapeNext ==
    \/ \E p \in Procs : StepA(p)
    \/ \E p \in Procs : Phase1(p)
    \/ \E p \in Procs : Phase2Begin(p)
    \/ \E p \in Procs : McpSend(p)
    \/ \E p \in Procs : McpRecv(p)
    \/ \E p \in Procs : Commit(p)
    \/ \E p \in Procs : Return(p)

ShapeSpec == ShapeInit /\ [][ShapeNext]_vars

\* ---------------------------------------------------------------- /orders and its emails
\* The server under the Notify traffic.
NotifyInit ==
    /\ traffic = Notify
    /\ orders = EmptyTable
    /\ order_items = <<>>
    /\ orderSeq = 0
    /\ today = 0
    /\ direct = {}
    /\ emails = EmptyBag
    /\ running = EmptyBag
    /\ delivered = EmptyBag
    /\ h = [p \in Procs |-> Idle]
    /\ tx = [p \in Procs |-> NoTx]
    /\ price_ugx = [i \in ItemIds |-> ListPrice(i)]
    /\ feeN = 0
    /\ feeM = 0
    /\ feeOut = NoFee
    /\ phase1JSON = <<>>
    /\ parsedOut = NotParsed
    /\ ctxDone = {}
    /\ ended = {}

\* The goroutine of part_010 189-224 and 427-446: SELECT email FROM users
\* with the request's context, then mailer.SendMail.  Under NotifyNext every
\* goroutine in running was started by POST /orders or DELETE /orders.
RestLookup(e) == IF e \in ctxDone THEN {"context canceled"} ELSE {"no rows", "found"}

RestEmailTask ==
    /\ traffic.mail
    /\ \E e \in BagToSet(running) : \E row \in RestLookup(e) :
        /\ running' = running (-) SetToBag({e})
        /\ \/ /\ row # "found"
              /\ ended' = ended \cup {[email |-> e, how |-> row]}
              /\ UNCHANGED delivered
           \/ /\ row = "found"
              /\ ended' = ended \cup {[email |-> e, how |-> "send failed"]}
              /\ UNCHANGED delivered
           \/ /\ row = "found"
              /\ ended' = ended \cup {[email |-> e, how |-> "sent"]}
              /\ delivered' = delivered (+) SetToBag({e})
        /\ UNCHANGED <<orders, order_items, orderSeq, today, direct, emails, h, tx,
                       pureVars, ctxDone>>

\* The steps of the handlers of POST and DELETE /orders and of their
\* notification goroutines.
NotifyNext ==
    \/ \E p \in Procs : handleCreateOrder(p)
    \/ \E p \in Procs : CreateBegin(p)
    \/ \E p \in Procs : CreateLine(p)
    \/ \E p \in Procs : CreateCommit(p)
    \/ \E p \in Procs : handleCancelOrder(p)
    \/ \E p \in Procs : CancelUpdate(p)
    \/ \E p \in Procs : Return(p)
    \/ RestEmailTask

NotifySpec == NotifyInit /\ [][NotifyNext]_vars

\* ---------------------------------------------------------------- progress
\* The handlers and the clock, without the email goroutines.
LiveInit ==
    /\ traffic = Stall
    /\ orders = EmptyTable
    /\ order_items = <<>>
    /\ orderSeq = 0
    /\ today = 0
    /\ direct = {}
    /\ emails = EmptyBag
    /\ running = EmptyBag
    /\ delivered = EmptyBag
    /\ h = [p \in Procs |-> Idle]
    /\ tx = [p \in Procs |-> NoTx]
    /\ price_ugx = [i \in ItemIds |-> ListPrice(i)]
    /\ feeN = 0
    /\ feeM = 0
    /\ feeOut = NoFee
    /\ phase1JSON = <<>>
    /\ parsedOut = NotParsed
    /\ ctxDone = {}
    /\ ended = {}

LiveNext ==
    \/ \E p \in Procs : StepA(p)
    \/ \E p \in Procs : Confirm1(p)
    \/ \E p \in Procs : Confirm2(p)
    \/ \E p \in Procs : Confirm3(p)
    \/ \E p \in Procs : ConfirmReply(p)
    \/ \E p \in Procs : Cancel1(p)
    \/ \E p \in Procs : CancelReply(p)
    \/ \E p \in Procs : SilentCancel(p)
    \/ \E p \in Procs : Phase1(p)
    \/ \E p \in Procs : Phase2Begin(p)
    \/ \E p \in Procs : McpSend(p)
    \/ \E p \in Procs : McpRecv(p)
    \/ \E p \in Procs : Commit(p)
    \/ \E p \in Procs : Return(p)
    \/ \E p \in Procs : handleCancelOrder(p)
    \/ \E p \in Procs : CancelUpdate(p)
    \/ \E p \in Procs : handleListOrders(p)
    \/ \E p \in Procs : handleCreateOrder(p)
    \/ \E p \in Procs : CreateBegin(p)
    \/ \E p \in Procs : CreateLine(p)
    \/ \E p \in Procs : CreateCommit(p)
    \/ handleUpdateItem
    \/ Tick

\* The steps a handler goroutine takes on its own once its request has arrived:
\* database statements, the extraction call (handler.go 420: bounded by a 15 s
\* context, so it returns with a result or an error), the sending of a catalog
\* request and the writing of the reply. The arrival of a request (StepA,
\* handleCancelOrder) and the return of http.Post (McpRecv; handler.go 518 uses
\* http.DefaultClient, which has no timeout, and no context) are not among them.
HandlerStep(p) ==
    \/ Confirm1(p) \/ Confirm2(p) \/ Confirm3(p) \/ ConfirmReply(p)
    \/ Cancel1(p) \/ CancelReply(p)
    \/ SilentCancel(p) \/ Phase1(p) \/ Phase2Begin(p) \/ McpSend(p) \/ Commit(p)
    \/ CancelUpdate(p) \/ CreateBegin(p) \/ CreateLine(p) \/ CreateCommit(p)

LiveSpec == LiveInit /\ [][LiveNext]_vars /\ \A p \in Procs : WF_vars(HandlerStep(p))

\* ---------------------------------------------------------------- fee function
\* calculateTransportFee applied to counts drawn from -FeeRange..FeeRange.
FeeInit ==
    /\ traffic = Serial
    /\ orders = EmptyTable
    /\ order_items = <<>>
    /\ orderSeq = 0
    /\ today = 0
    /\ direct = {}
    /\ emails = EmptyBag
    /\ running = EmptyBag
    /\ delivered = EmptyBag
    /\ h = [p \in Procs |-> Idle]
    /\ tx = [p \in Procs |-> NoTx]
    /\ price_ugx = [i \in ItemIds |-> ListPrice(i)]
    /\ feeN \in -FeeRange..FeeRange
    /\ feeM \in -FeeRange..FeeRange
    /\ feeOut = NoFee
    /\ phase1JSON = <<>>
    /\ parsedOut = NotParsed
    /\ ctxDone = {}
    /\ ended = {}

FeeOfN ==
    /\ feeOut.ofN = 0
    /\ feeOut' = [feeOut EXCEPT !.ofN = calculateTransportFee(feeN)]
    /\ UNCHANGED <<orders, order_items, orderSeq, today, direct, mailVars, h, tx, traffic, price_ugx, feeN, feeM, phase1JSON, parsedOut, ctxDone, ended>>

FeeOfM ==
    /\ feeOut.ofM = 0
    /\ feeOut' = [feeOut EXCEPT !.ofM = calculateTransportFee(feeM)]
    /\ UNCHANGED <<orders, order_items, orderSeq, today, direct, mailVars, h, tx, traffic, price_ugx, feeN, feeM, phase1JSON, parsedOut, ctxDone, ended>>

FeeNext == FeeOfN \/ FeeOfM

FeeSpec == FeeInit /\ [][FeeNext]_vars

\* ---------------------------------------------------------------- fenced responses
\* The products a response names, and the arrays of 1..MaxLines of them.
Products == [name : {Bread, Milk}, quantity : 1..2]

Arrays == UNION {[1..k -> Products] : k \in 1..MaxLines}

\* The lines of array l written on one line, and written over Len(l) + 2 lines.
OneLine(l) == <<Array(l)>>

Spread(l) == <<Open>> \o [i \in 1..Len(l) |-> Element(l[i])] \o <<Close>>

\* A response: an opening fence line, the lines of an array, a closing fence line.
Fenced(open, ls) == <<open>> \o ls \o <<Fence>>

\* The lines of a fenced response between its fences.
Unfenced(raw) == SubSeq(raw, 2, Len(raw) - 1)

FenceInit ==
    /\ traffic = Serial
    /\ orders = EmptyTable
    /\ order_items = <<>>
    /\ orderSeq = 0
    /\ today = 0
    /\ direct = {}
    /\ emails = EmptyBag
    /\ running = EmptyBag
    /\ delivered = EmptyBag
    /\ h = [p \in Procs |-> Idle]
    /\ tx = [p \in Procs |-> NoTx]
    /\ price_ugx = [i \in ItemIds |-> ListPrice(i)]
    /\ feeN = 0
    /\ feeM = 0
    /\ feeOut = NoFee
    /\ \E open \in {Fence, FenceJson}, l \in Arrays :
            phase1JSON \in {Fenced(open, OneLine(l)), Fenced(open, Spread(l))}
    /\ parsedOut = NotParsed
    /\ ctxDone = {}
    /\ ended = {}

\* handler.go 459-472 applied to the response.
ParseResponse ==
    /\ ~parsedOut.done
    /\ parsedOut' = [done |-> TRUE, list |-> parsedList(phase1JSON)]
    /\ UNCHANGED <<orders, order_items, orderSeq, today, direct, mailVars, h, tx, traffic,
                   price_ugx, feeN, feeM, feeOut, phase1JSON, ctxDone, ended>>

FenceNext == ParseResponse

FenceSpec == FenceInit /\ [][FenceNext]_vars

\* ================================================================ claims
Confirmation(o) == CopiesIn(Email("confirmation", o), emails)

Cancellation(o) == CopiesIn(Email("cancellation", o), emails)

\* Handler p takes the step.
Steps(p) == h'[p] # h[p]

\* C1: every user owns at most one order in status PENDING.
C1_AtMostOnePending == \A u \in Users : Cardinality(PendingOf(u)) <= 1

\* C2: a draft receives at most one terminal transition: never a confirmation
\* and a cancellation, never two confirmations.
C2_OneTerminalTransition ==
    \A o \in DOMAIN orders :
        /\ Confirmation(o) <= 1
        /\ ~(Confirmation(o) >= 1 /\ Cancellation(o) >= 1)

\* C3: every CONFIRMED order has total_cost = sum of quantity * unit_price of
\* its lines + transport_fee.
C3_ConfirmedTotal ==
    \A o \in DOMAIN orders :
        orders[o].status = "CONFIRMED" =>
            orders[o].total_cost = Subtotal(ItemsOf(o)) + orders[o].transport_fee

\* The user's CONFIRMED orders created since midnight, with order o counted once.
CountedOnce(u, o) ==
    Cardinality({o} \cup {x \in DOMAIN orders :
        /\ orders[x].user_id = u
        /\ orders[x].status = "CONFIRMED"
        /\ orders[x].created_at >= today})

\* C4: after a confirm turn, the fee written on the order is transportFee(n),
\* n = the user's CONFIRMED orders of today with the confirmed one counted once.
C4_FeeCountsOrderOnce ==
    \A p \in Procs :
        (/\ h[p].pc = "done"
         /\ h[p].outcome = "confirmed"
         /\ orders[h[p].pendingOrderID].status = "CONFIRMED"
         /\ orders[h[p].pendingOrderID].transport_fee # 0)
        => orders[h[p].pendingOrderID].transport_fee =
              calculateTransportFee(CountedOnce(h[p].userID, h[p].pendingOrderID))

\* C5: the fee is 1000 up to 3 orders, 2000 from 4 to 6, 3000 above 6.
C5_FeeTiers ==
    feeOut.ofN # 0 =>
        /\ feeN <= 3 => feeOut.ofN = 1000
        /\ (4 <= feeN /\ feeN <= 6) => feeOut.ofN = 2000
        /\ feeN > 6 => feeOut.ofN = 3000
        /\ feeN = 3 => feeOut.ofN = 1000
        /\ feeN = 4 => feeOut.ofN = 2000
        /\ feeN = 6 => feeOut.ofN = 2000
        /\ feeN = 7 => feeOut.ofN = 3000

C5_Witness == feeN = 7 /\ feeOut.ofN = 3000

\* C6: the fee is monotonically non-decreasing in the count.
C6_FeeMonotone ==
    (feeOut.ofN # 0 /\ feeOut.ofM # 0 /\ feeM <= feeN) => feeOut.ofM <= feeOut.ofN

C6_Witness == feeM = -1 /\ feeN = 7 /\ feeOut.ofM = 1000 /\ feeOut.ofN = 3000

\* C7: a chat turn leaves every order that was CONFIRMED when the turn looked
\* up the user's draft as it is, and starts no confirmation email for it.
C7_ConfirmIdempotent ==
    [][\A p \in Procs : \A o \in h[p].seenConfirmed :
          Steps(p) =>
              /\ orders'[o] = orders[o]
              /\ ItemsOf(o)' = ItemsOf(o)
              /\ Confirmation(o)' = Confirmation(o)]_vars

\* The confirm keyword is sent again, with the order CONFIRMED and no draft left.
C7_Witness ==
    \E p \in Procs :
        /\ h[p].pc = "phase1"
        /\ isConfirmation(h[p].text)
        /\ h[p].pendingOrderID = NoOrder
        /\ h[p].seenConfirmed # {}
        /\ \E o \in h[p].seenConfirmed : Confirmation(o) = 1

\* C8: a turn that ends on an unavailable product leaves no order and no line
\* of its own, replies that the product is not available, and the user's
\* next draft lookup finds nothing.
C8_UnavailableAborts ==
    \A p \in Procs :
        (h[p].pc = "done" /\ h[p].outcome = "not_available") =>
            /\ h[p].reply.kind = NotAvailable(Milk).kind
            /\ h[p].reply.name \in {Milk, Bread}
            /\ h[p].newOrderID \notin DOMAIN orders
            /\ ItemsOf(h[p].newOrderID) = <<>>
            /\ LookupPending(h[p].userID) = NoOrder

\* Line k of order o is the k-th extracted product.
LineMatches(row, product) ==
    row.item_id = ItemIdOf(product.name) /\ row.quantity = product.quantity

\* C9: the committed tables never hold an order without lines or a line
\* without its order; a turn that commits leaves its order with one line per
\* extracted product, a turn that fails after BeginTx leaves nothing.
C9_AllOrNothing ==
    /\ [](\A o \in DOMAIN orders : ItemsOf(o) # <<>>)
    /\ [](\A k \in DOMAIN order_items : order_items[k].order_id \in DOMAIN orders)
    /\ [][\A p \in Procs :
            (h[p].pc \in {"phase2", "mcp", "mcp_wait", "commit"} /\ h'[p].pc = "done") =>
                IF h'[p].outcome = "summary"
                THEN /\ h[p].newOrderID \in DOMAIN orders'
                     /\ Len(ItemsOf(h[p].newOrderID)') = Len(h[p].parsedList)
                     /\ \A k \in DOMAIN h[p].parsedList :
                            LineMatches(ItemsOf(h[p].newOrderID)'[k], h[p].parsedList[k])
                ELSE /\ orders' = orders
                     /\ order_items' = order_items
                     /\ tx'[p] = NoTx]_vars

\* A turn fails at Commit after its order row and lines were written in the tx.
C9_Witness ==
    \E p \in Procs :
        /\ h[p].pc = "done"
        /\ h[p].outcome = "commit_failed"
        /\ h[p].idx = 2
        /\ h[p].newOrderID \notin DOMAIN orders

ExternalFailures == {"gemini_error", "mcp_request_failed", "mcp_decode_failed"}

\* C10: a turn that ends on a failed external call replies with an internal
\* error and leaves no order and no line of its own in the store.
C10_ExternalFailureAborts ==
    \A p \in Procs :
        (h[p].pc = "done" /\ h[p].outcome \in ExternalFailures) =>
            /\ h[p].reply \in {InternalError, GeminiError}
            /\ h[p].newOrderID \notin DOMAIN orders
            /\ ItemsOf(h[p].newOrderID) = <<>>
            /\ tx[p] = NoTx

\* The catalog request for the second line fails after the first was inserted.
C10_Witness ==
    \E p \in Procs :
        /\ h[p].pc = "done"
        /\ h[p].outcome = "mcp_request_failed"
        /\ h[p].idx = 1
        /\ h[p].newOrderID # NoOrder

\* C11: a chat turn changes the row or the lines of at most one order.
C11_AtMostOneOrderChanged ==
    \A p \in Procs :
        (h[p].pc = "done" /\ h[p].orderID = NoOrder) => Cardinality(h[p].touched) <= 1

\* C12: a turn whose extraction yields no line replies with the off-topic
\* message, changes no order, and has made one model call and no catalog call.
C12_OffTopicNoPersistence ==
    \A p \in Procs :
        (h[p].pc = "done" /\ h[p].outcome = "off_topic") =>
            /\ h[p].reply = OffTopic
            /\ h[p].touched = {}
            /\ h[p].geminiCalls = 1
            /\ h[p].mcpCalls = 0

Terminal == {"CONFIRMED", "CANCELLED"}

\* C13: the status of a CONFIRMED or CANCELLED order never changes again.
C13_TerminalStatuses ==
    [][\A o \in DOMAIN orders :
          orders[o].status \in Terminal => orders'[o].status = orders[o].status]_vars

\* C14: a PENDING order has transport_fee = 0 and total_cost = 0, and so has
\* every order that went from PENDING to CANCELLED, from then on.
C14_FeeZeroUntilConfirmed ==
    \A o \in DOMAIN orders :
        (orders[o].status = "PENDING" \/ o \in direct) =>
            orders[o].transport_fee = 0 /\ orders[o].total_cost = 0

\* C15: when a turn that found a draft and neither keyword commits a new
\* draft, the draft it found is CANCELLED.
C15_StaleDraftCancelledFirst ==
    [][\A p \in Procs :
          (/\ h[p].pc = "commit"
           /\ h'[p].outcome = "summary"
           /\ h[p].pendingOrderID # NoOrder)
          => orders[h[p].pendingOrderID].status = "CANCELLED"]_vars

\* The lines of the committed tables that belong to other orders than o.
LinesOfOthers(items, o) == SelectSeq(items, LAMBDA row : row.order_id # o)

\* C16: a turn that commits leaves exactly one new order, PENDING, owned by
\* the requesting user, with one line per extracted product that carries the
\* extracted quantity and the price the catalog showed at the lookup; the
\* reply is the summary prompt with the sum of quantity * unit price of
\* those lines and nothing added to it.
C16_FreshOrderCommitted ==
    [][\A p \in Procs :
          (h[p].pc = "commit" /\ h'[p].outcome = "summary") =>
              LET o == h[p].newOrderID
                  lines == ItemsOf(o)'
              IN
              /\ o \notin DOMAIN orders
              /\ Changed(orders, orders') = {o}
              /\ orders'[o].user_id = h[p].userID
              /\ orders'[o].status = "PENDING"
              /\ LinesOfOthers(order_items', o) = order_items
              /\ Len(lines) = Len(h[p].parsedList)
              /\ \A k \in DOMAIN h[p].parsedList :
                    /\ LineMatches(lines[k], h[p].parsedList[k])
                    /\ lines[k].unit_price = h[p].confirmedItems[k].unit_price
                    /\ lines[k].unit_price \in PricesOf(lines[k].item_id)
              /\ h'[p].reply = Summary(Subtotal(lines))]_vars

\* A turn has committed bread at 2000 and milk at 5000, one of each.
C16_Witness ==
    \E p \in Procs :
        /\ h[p].pc = "done"
        /\ h[p].outcome = "summary"
        /\ h[p].reply.amount = 7000
        /\ Len(ItemsOf(h[p].newOrderID)) = 2
        /\ orders[h[p].newOrderID].status = "PENDING"

\* An email goroutine takes the step: it ends, or it brings the process down.
EmailStep == running' # running /\ emails' = emails

\* C17: the confirm and the cancel reply do not wait for the email goroutine,
\* and no step of an email goroutine changes an order or what a handler has
\* replied or is about to reply.
C17_FireAndForget ==
    /\ [](\A p \in Procs :
            /\ h[p].pc = "confirm4" => ENABLED ConfirmReply(p)
            /\ h[p].pc = "cancel2" => ENABLED CancelReply(p))
    /\ [][EmailStep => (orders' = orders /\ order_items' = order_items /\ h' = h)]_vars

\* Handler p has begun a transaction and has neither committed nor rolled back.
TxOpen(p) == tx[p] # NoTx

\* C18: no catalog request is in flight while the handler's transaction is open.
C18_NoTxAcrossCall == \A p \in Procs : h[p].pc = "mcp_wait" => ~TxOpen(p)

\* Handler p is serving a request.
InFlight(p) == h[p].pc \notin {"idle", "done"}

\* C19: every chat turn eventually writes a reply and has released its transaction,
\* whether or not the catalog service and the model service respond.
C19_EveryTurnReplies ==
    \A p \in Procs : InFlight(p) ~> (h[p].pc = "done" /\ h[p].reply # NoReply /\ ~TxOpen(p))

\* The external calls handler p has made in its turn.
Calls(f) == f.geminiCalls + f.mcpCalls

\* C20: a turn makes one model call at most, and it precedes every catalog call;
\* each catalog call is for the next line, after all calls for the earlier lines
\* succeeded; once a turn has its reply (a failed call ends the turn) it makes no call.
C20_NoRetry ==
    /\ [](\A p \in Procs :
            /\ h[p].geminiCalls <= 1
            /\ h[p].mcpCalls \in {h[p].idx, h[p].idx + 1}
            /\ h[p].outcome = "summary" =>
                    (h[p].geminiCalls = 1 /\ h[p].mcpCalls = h[p].idx /\ h[p].idx >= 1))
    /\ [][\A p \in Procs :
            /\ h'[p].geminiCalls > h[p].geminiCalls => Calls(h[p]) = 0
            /\ h'[p].mcpCalls > h[p].mcpCalls =>
                    /\ h[p].mcpCalls = h[p].idx
                    /\ h'[p].mcpCalls = h[p].idx + 1
                    /\ h[p].idx < Len(h[p].parsedList)
            /\ h[p].pc = "done" => Calls(h'[p]) <= Calls(h[p])]_vars

\* A turn of two lines whose second catalog request failed: two catalog calls, one
\* model call, and the turn has ended.
C20_Witness ==
    \E p \in Procs :
        /\ h[p].pc = "done"
        /\ h[p].outcome = "mcp_request_failed"
        /\ h[p].geminiCalls = 1
        /\ h[p].mcpCalls = 2
        /\ h[p].idx = 1

\* C21: a response of the extraction call that json.Unmarshal rejects ends the
\* turn with the fixed off-topic reply; the step that parses it writes nothing,
\* the turn has no new order and no internal error.
C21_MalformedIsOffTopic ==
    /\ [](\A p \in Procs :
            h[p].parseErr =>
                /\ h[p].pc = "done"
                /\ h[p].outcome = "off_topic"
                /\ h[p].reply = OffTopic
                /\ h[p].newOrderID = NoOrder
                /\ ~TxOpen(p))
    /\ [][\A p \in Procs :
            (~h[p].parseErr /\ h'[p].parseErr) =>
                (orders' = orders /\ order_items' = order_items /\ orderSeq' = orderSeq)]_vars

\* A turn whose response did not parse has ended.
C21_Witness ==
    \E p \in Procs : h[p].parseErr /\ h[p].pc = "done" /\ h[p].geminiCalls = 1

LinesAt(o) == {i \in 1..Len(order_items) : order_items[i].order_id = o}

\* quantity * unit_price of the stored lines at the positions S, added up.
RECURSIVE StoredValue(_)
StoredValue(S) ==
    IF S = {} THEN 0
    ELSE LET i == CHOOSE j \in S : TRUE
         IN order_items[i].quantity * order_items[i].unit_price + StoredValue(S \ {i})

\* C23: a committed line keeps its place, its quantity and its unit price under
\* every later step; a confirm turn queries no catalog and the subtotal it
\* confirms with is that of the stored lines, whatever the catalog shows.
C23_PricesFrozen ==
    /\ [](\A p \in Procs :
            h[p].pc \in {"confirm1", "confirm2", "confirm3", "confirm4"} =>
                /\ h[p].mcpCalls = 0
                /\ h[p].pc \in {"confirm3", "confirm4"} =>
                        h[p].totalSubtotal = StoredValue(LinesAt(h[p].pendingOrderID)))
    /\ [][/\ Len(order_items') >= Len(order_items)
          /\ \A i \in 1..Len(order_items) : order_items'[i] = order_items[i]]_vars

\* An order was confirmed at the price of its stored line after the catalog's
\* price of that item had changed.
C23_Witness ==
    \E o \in DOMAIN orders :
        /\ orders[o].status = "CONFIRMED"
        /\ orders[o].total_cost = StoredValue(LinesAt(o)) + orders[o].transport_fee
        /\ \E i \in LinesAt(o) : order_items[i].unit_price # price_ugx[order_items[i].item_id]
        /\ \E p \in Procs : h[p].outcome = "confirmed" /\ h[p].pendingOrderID = o

\* ---------------------------------------------------------------- C24
\* A DELETE /orders request that has just been answered or has passed the checks.
DeleteAsked(p) == h[p].pc = "idle" /\ h'[p].pc # "idle" /\ h'[p].orderID \in DOMAIN orders

\* The step rejects the request and writes nothing and starts no email.
Refused(p) ==
    /\ h'[p].pc = "done"
    /\ h'[p].outcome = "rest_rejected"
    /\ orders' = orders
    /\ order_items' = order_items
    /\ emails' = emails
    /\ running' = running

\* C24: DELETE /orders?id= for an existing order is guarded by ownership and
\* by the 17:00 cutoff.  A request of a user who does not own the order is
\* answered "not authorized" (or "database error" when the SELECT fails), a
\* request after the cutoff is always rejected, and as "cancellation window
\* closed" when it comes from the owner of a PENDING or CONFIRMED order; in
\* both cases no order changes and no email goroutine is started.  Only a
\* request of the owner made before the cutoff reaches the UPDATE.
C24_CancelGuards ==
    /\ [](\A p \in Procs : h[p].pc = "rest_cancel" =>
            /\ h[p].orderID \in DOMAIN orders
            /\ orders[h[p].orderID].user_id = h[p].userID
            /\ ~h[p].afterCutoff)
    /\ [][\A p \in Procs : DeleteAsked(p) =>
            LET o == orders[h'[p].orderID]
                kind == h'[p].reply.kind
            IN  /\ o.user_id # h'[p].userID =>
                    Refused(p) /\ kind \in {"not authorized", "database error"}
                /\ h'[p].afterCutoff => Refused(p)
                /\ (/\ h'[p].afterCutoff
                    /\ o.user_id = h'[p].userID
                    /\ o.status \in {"PENDING", "CONFIRMED"}) =>
                        kind \in {"cancellation window closed", "database error"}]_vars

\* A request before the cutoff for a live order of another user was answered
\* "not authorized"; the order is as it was and has no cancellation email.
C24_Witness ==
    \E p \in Procs :
        /\ h[p].pc = "done"
        /\ h[p].reply.kind = "not authorized"
        /\ ~h[p].afterCutoff
        /\ h[p].orderID \in DOMAIN orders
        /\ orders[h[p].orderID].status = "CONFIRMED"
        /\ Cancellation(h[p].orderID) = 0

\* A request of the owner of a live order after the cutoff was answered
\* "cancellation window closed".
C24_WindowClosed ==
    \E p \in Procs :
        /\ h[p].pc = "done"
        /\ h[p].reply.kind = "cancellation window closed"
        /\ h[p].afterCutoff
        /\ orders[h[p].orderID].user_id = h[p].userID
        /\ orders[h[p].orderID].status \in {"PENDING", "CONFIRMED"}

\* ---------------------------------------------------------------- C25
\* handler.go 43-50 (first revision): now.Before(08:00) || now.After(17:00) is
\* outside the order window; hh is the hour of the day of the arrival.
InWindow(hh) == hh >= 8 /\ hh < 17

\* C25: orders are accepted only between 08:00 and 17:00.  When the chat
\* turns arrive outside the window no order exists at any time (none is
\* created, so none can be confirmed or cancelled) and no turn gets past the
\* lookup of the pending order.
C25_OrderWindow ==
    ~InWindow(traffic.hour) =>
        /\ DOMAIN orders = {}
        /\ \A p \in Procs : h[p].pc \in {"idle", "done"}

\* A turn that arrived at 20:00 has created a draft and was answered with its
\* summary.
C25_Witness ==
    /\ ~InWindow(traffic.hour)
    /\ \E p \in Procs :
        /\ h[p].pc = "done"
        /\ h[p].outcome = "summary"
        /\ h[p].newOrderID \in DOMAIN orders

\* ---------------------------------------------------------------- C26
\* C26: orders are never deleted.  Whatever step is taken (a chat turn, POST,
\* GET or DELETE /orders, a price update, midnight, an email goroutine), every
\* committed order is still in the table afterwards with the same owner and
\* the same lines, and an order that becomes CANCELLED differs from what it
\* was in its status only.
C26_NeverDeleted ==
    [][\A o \in DOMAIN orders :
        /\ o \in DOMAIN orders'
        /\ orders'[o].user_id = orders[o].user_id
        /\ ItemsOf(o)' = ItemsOf(o)
        /\ (orders'[o].status = "CANCELLED" /\ orders[o].status # "CANCELLED") =>
                orders'[o] = [orders[o] EXCEPT !.status = "CANCELLED"]]_vars

\* A confirmed order was cancelled through DELETE /orders and is still in the
\* table with its line, fee and total.
C26_Witness ==
    \E p \in Procs :
        /\ h[p].pc = "done"
        /\ h[p].outcome = "rest_cancelled"
        /\ h[p].orderID \in DOMAIN orders
        /\ orders[h[p].orderID].status = "CANCELLED"
        /\ orders[h[p].orderID].total_cost > 0
        /\ ItemsOf(h[p].orderID) # <<>>

\* ---------------------------------------------------------------- C27
\* The user the step of handler p is taken for.
Actor(p) == IF h[p].pc = "idle" THEN h'[p].userID ELSE h[p].userID

\* The orders of table t that user u owns.
Own(u, t) == {o \in DOMAIN t : t[o].user_id = u}

\* The emails whose goroutine the step starts.
Started == {e \in BagToSet(running') : CopiesIn(e, running') > CopiesIn(e, running)}

\* C27: turns of different users are independent.  While the requests of
\* alice and bob interleave, a chat turn works on rows of its own user only
\* (the pending order it found, the confirmed orders it saw, the orders it
\* changed, the count its fee is computed from), and every step taken for a
\* user leaves the orders and lines of every other user as they were, adds
\* orders and lines for that user only and starts emails for that user's
\* orders only.
C27_UsersIndependent ==
    /\ [](\A p \in Procs : h[p].userID # "" =>
            LET mine == Own(h[p].userID, orders) IN
            /\ h[p].pendingOrderID # NoOrder => h[p].pendingOrderID \in mine
            /\ h[p].seenConfirmed \subseteq mine
            /\ h[p].touched \subseteq mine
            /\ h[p].pc \in {"confirm3", "confirm4"} =>
                    h[p].confirmedCount <= Cardinality(mine) + 1)
    /\ [][\A p \in Procs : h'[p] # h[p] =>
            LET u == Actor(p) IN
            /\ \A o \in DOMAIN orders : orders[o].user_id # u =>
                    /\ o \in DOMAIN orders'
                    /\ orders'[o] = orders[o]
                    /\ ItemsOf(o)' = ItemsOf(o)
            /\ \A o \in DOMAIN orders' \ DOMAIN orders : orders'[o].user_id = u
            /\ \A i \in (Len(order_items) + 1)..Len(order_items') :
                    order_items'[i].order_id \in Own(u, orders')
            /\ \A e \in Started : e.order_id \in Own(u, orders')]_vars

\* Alice's turn is about to write the fee of her order while bob's turn is
\* about to cancel his.
C27_Witness ==
    /\ traffic.split
    /\ h["h1"].pc = "confirm3"
    /\ h["h2"].pc = "cancel1"
    /\ h["h1"].userID = "alice"
    /\ h["h2"].userID = "bob"
    /\ h["h1"].pendingOrderID # h["h2"].pendingOrderID

\* ---------------------------------------------------------------- C28
\* Where a turn is in the confirm or the cancel branch, and how such a turn ends.
KeywordPcs == {"confirm1", "confirm2", "confirm3", "confirm4", "cancel1", "cancel2"}

KeywordOutcomes ==
    {"confirmed", "confirm_failed", "items_query_failed", "cancelled", "cancel_failed"}

\* Where a turn is on its way from the extraction call to the commit.
OrderingPcs == {"phase1", "phase2", "mcp", "mcp_wait", "commit"}

\* C28: the keywords are looked for only when the user has a pending draft,
\* and locally.  A turn in the confirm or the cancel branch has a pending draft
\* and has made no extraction call and no catalog call, up to and including its
\* reply.  A chat turn of a user without a pending draft goes to the
\* extraction call whatever its text is, "confirm" and "cancel" included, and
\* no step of it changes an order that exists.
C28_LocalClassifier ==
    /\ [](\A p \in Procs :
            (\/ h[p].pc \in KeywordPcs
             \/ h[p].pc = "done" /\ h[p].outcome \in KeywordOutcomes) =>
                /\ h[p].pendingOrderID # NoOrder
                /\ h[p].geminiCalls = 0
                /\ h[p].mcpCalls = 0)
    /\ [][\A p \in Procs :
            /\ (/\ h[p].pc = "idle"
                /\ h'[p].pc \in KeywordPcs \cup OrderingPcs \cup {"silent"}
                /\ LookupPending(h'[p].userID) = NoOrder) =>
                    /\ h'[p].pc = "phase1"
                    /\ h'[p].pendingOrderID = NoOrder
            /\ (/\ h[p].pc \in OrderingPcs
                /\ h[p].pendingOrderID = NoOrder
                /\ h'[p] # h[p]) =>
                    \A o \in DOMAIN orders : o \in DOMAIN orders' /\ orders'[o] = orders[o]]_vars

\* A user with a confirmed order and no draft sent "confirm": the turn is at
\* the extraction call, as a fresh ordering request.
C28_Witness ==
    \E p \in Procs :
        /\ h[p].pc = "phase1"
        /\ h[p].text = MsgConfirm
        /\ h[p].pendingOrderID = NoOrder
        /\ ConfirmedOf(h[p].userID) # {}

\* ---------------------------------------------------------------- C29
\* Order o is CONFIRMED and no fee and no total were written on it.
Unpriced(o) ==
    /\ orders[o].status = "CONFIRMED"
    /\ orders[o].transport_fee = 0
    /\ orders[o].total_cost = 0

\* C29: a persistence failure in the confirm branch rolls back.  A confirm
\* turn that has ended, with an internal error after the failed read of the
\* lines or with the confirmation reply, does not leave its order CONFIRMED
\* with transport_fee = 0 and total_cost = 0, and no confirmation email is
\* dispatched for an order in that condition.
C29_ConfirmFailureRollsBack ==
    /\ \A p \in Procs :
        (/\ h[p].pc = "done"
         /\ h[p].outcome \in {"items_query_failed", "confirmed"}
         /\ h[p].pendingOrderID \in DOMAIN orders) => ~Unpriced(h[p].pendingOrderID)
    /\ \A o \in DOMAIN orders : Unpriced(o) => Confirmation(o) = 0

\* The write of the fee and the total failed; the turn answered with the
\* confirmation and one confirmation email was dispatched for the order.
C29_Witness ==
    \E p \in Procs :
        /\ h[p].pc = "done"
        /\ h[p].outcome = "confirmed"
        /\ h[p].pendingOrderID \in DOMAIN orders
        /\ Unpriced(h[p].pendingOrderID)
        /\ Confirmation(h[p].pendingOrderID) = 1

\* ---------------------------------------------------------------- C30
\* C30: the cancel branch.  A turn of a user with a pending draft whose text
\* contains the cancel keyword and not the confirm keyword takes the cancel
\* branch.  The step that cancels sets that draft to CANCELLED and changes
\* nothing else of it or of any other order, leaves all lines as they are,
\* dispatches exactly one cancellation email for the draft and no other
\* email, and hands out no order id.  The turn creates no order and changes
\* no order but the draft, and when it is the only request in flight the
\* draft is CANCELLED with exactly one cancellation email at its reply.
C30_CancelBranch ==
    /\ [](\A p \in Procs :
            (\/ h[p].pc \in {"cancel1", "cancel2"}
             \/ h[p].pc = "done" /\ h[p].outcome \in {"cancelled", "cancel_failed"}) =>
                /\ h[p].pendingOrderID \in DOMAIN orders
                /\ h[p].newOrderID = NoOrder
                /\ h[p].touched \subseteq {h[p].pendingOrderID}
                /\ (/\ h[p].pc = "done"
                    /\ h[p].outcome = "cancelled"
                    /\ Cardinality(traffic.handlers) = 1) =>
                        /\ orders[h[p].pendingOrderID].status = "CANCELLED"
                        /\ Cancellation(h[p].pendingOrderID) = 1)
    /\ [][\A p \in Procs :
            /\ (/\ h[p].pc = "idle"
                /\ h'[p].pendingOrderID # NoOrder
                /\ isCancellation(h'[p].text)
                /\ ~isConfirmation(h'[p].text)) => h'[p].pc = "cancel1"
            /\ (h[p].pc = "cancel1" /\ h'[p].pc = "cancel2") =>
                    LET o == h[p].pendingOrderID IN
                    /\ orders' = [orders EXCEPT ![o].status = "CANCELLED"]
                    /\ order_items' = order_items
                    /\ orderSeq' = orderSeq
                    /\ tx' = tx
                    /\ emails' = emails (+) SetToBag({Email("cancellation", o)})
            /\ (h[p].pc = "cancel2" /\ h'[p].outcome = "cancelled") =>
                    /\ h'[p].reply = Cancelled
                    /\ orders' = orders
                    /\ emails' = emails]_vars

\* A draft with a line was cancelled through the chat: it is CANCELLED, its
\* line is stored, one cancellation email was dispatched and the turn made
\* no call and created nothing.
C30_Witness ==
    \E p \in Procs :
        /\ h[p].pc = "done"
        /\ h[p].outcome = "cancelled"
        /\ orders[h[p].pendingOrderID].status = "CANCELLED"
        /\ ItemsOf(h[p].pendingOrderID) # <<>>
        /\ Cancellation(h[p].pendingOrderID) = 1
        /\ Calls(h[p]) = 0
        /\ h[p].touched = {h[p].pendingOrderID}

\* ---------------------------------------------------------------- C31
\* C31: fence stripping preserves the payload.  A response made of an opening
\* fence line, a JSON array of k >= 1 products on one or more lines, and a
\* closing fence line is parsed to the k line requests the same array yields
\* without its fences.
C31_FencesPreservePayload ==
    parsedOut.done =>
        /\ parsedOut.list = parsedList(Unfenced(phase1JSON))
        /\ Len(parsedOut.list) >= 1

\* A fenced array of two products written over four lines was parsed to no
\* line request; without its fences it yields two.
C31_Witness ==
    /\ parsedOut.done
    /\ Len(phase1JSON) = 6
    /\ parsedOut.list = <<>>
    /\ Len(parsedList(Unfenced(phase1JSON))) = 2

\* ---------------------------------------------------------------- C32
\* C32: every committed order has at least one committed line, whatever chat
\* turns and POST /orders requests (empty item lists, unknown items, failing
\* statements included) have run.
C32_NoEmptyOrder == \A o \in DOMAIN orders : Len(ItemsOf(o)) >= 1

\* Orders are committed, one through the chat and one through POST /orders,
\* after an off-topic turn and a request with no items were turned away.
C32_Witness ==
    /\ \E o \in DOMAIN orders : orders[o].status = "PENDING" /\ Len(ItemsOf(o)) >= 1
    /\ \E p \in Procs :
        /\ h[p].pc = "done"
        /\ h[p].reply.kind = "order must contain at least one item"

\* ---------------------------------------------------------------- C33
\* C33: the fee POST /orders stores on the new order is
\* calculateTransportFee(c + 1), c = the user's orders created today whose
\* status is CONFIRMED (the new order is CONFIRMED itself and is the + 1).
C33_CreateFeeCountsConfirmed ==
    \A p \in Procs :
        (h[p].pc = "done" /\ h[p].outcome = "rest_created") =>
            orders[h[p].orderID].transport_fee =
                calculateTransportFee(CountedOnce(h[p].userID, h[p].orderID))

\* The fourth order of the day was created after two of the first three were
\* cancelled: it is the user's second CONFIRMED order and carries the fee of
\* the second tier.
C33_Witness ==
    \E p \in Procs :
        /\ h[p].pc = "done"
        /\ h[p].outcome = "rest_created"
        /\ CountedOnce(h[p].userID, h[p].orderID) = 2
        /\ orders[h[p].orderID].transport_fee = 2000

\* ---------------------------------------------------------------- C34
\* The text of the turn handler p serves contains both keywords.
BothKeywords(p) == isConfirmation(h[p].text) /\ isCancellation(h[p].text)

\* C34: confirm takes precedence over cancel.  A turn of a user with a pending
\* draft whose text contains "confirm" and "cancel" takes the confirm branch;
\* no turn with "confirm" in its text is in the cancel branch or cancels
\* silently; every step of such a turn changes no status but the draft's, to
\* CONFIRMED, and starts no email but a confirmation for the draft.
C34_ConfirmFirst ==
    /\ [](\A p \in Procs :
            h[p].pc \in {"cancel1", "cancel2", "silent"} => ~isConfirmation(h[p].text))
    /\ [][\A p \in Procs :
            /\ (/\ h[p].pc = "idle"
                /\ h'[p].pendingOrderID # NoOrder
                /\ isConfirmation(h'[p].text)
                /\ isCancellation(h'[p].text)) => h'[p].pc = "confirm1"
            /\ (BothKeywords(p) /\ h[p].pendingOrderID # NoOrder /\ h'[p] # h[p]) =>
                    /\ \A o \in DOMAIN orders :
                            orders'[o].status # orders[o].status =>
                                o = h[p].pendingOrderID /\ orders'[o].status = "CONFIRMED"
                    /\ Started \subseteq {Email("confirmation", h[p].pendingOrderID)}
                    /\ h'[p].pc \in {"confirm1", "confirm2", "confirm3", "confirm4", "done"}
                    /\ h'[p].pc = "done" =>
                            h'[p].outcome \in
                                {"confirmed", "confirm_failed", "items_query_failed", "crashed"}]_vars

\* A turn whose text holds both keywords has confirmed the draft and started
\* its confirmation email; no cancellation email exists for the draft.
C34_Witness ==
    \E p \in Procs :
        /\ h[p].pc = "confirm4"
        /\ h[p].text = MsgBoth
        /\ orders[h[p].pendingOrderID].status = "CONFIRMED"
        /\ Confirmation(h[p].pendingOrderID) = 1
        /\ Cancellation(h[p].pendingOrderID) = 0

\* ---------------------------------------------------------------- C35
\* The step is handler p's cancel branch or p's DELETE /orders cancelling order o.
ExplicitCancel(p, o) ==
    \/ h[p].pc = "cancel1" /\ h'[p].pc = "cancel2" /\ h[p].pendingOrderID = o
    \/ h[p].pc = "rest_cancel" /\ h'[p].outcome = "rest_cancelled" /\ h[p].orderID = o

\* C35: the silent cancellation of a stale draft dispatches no notification.
\* The step of a turn with neither keyword that cancels the pending draft
\* starts no email, and every cancellation email is started by a step of the
\* cancel branch or of DELETE /orders for its order.
C35_SilentCancelIsSilent ==
    [][/\ \A p \in Procs :
            (h[p].pc = "silent" /\ h'[p].pc = "phase1") =>
                (emails' = emails /\ running' = running)
       /\ \A e \in Started :
            e.kind = "cancellation" => \E p \in Procs : ExplicitCancel(p, e.order_id)]_vars

\* A turn with neither keyword has cancelled the user's draft and goes on to
\* the extraction; no cancellation email exists for the draft.
C35_Witness ==
    \E p \in Procs :
        /\ h[p].pc = "phase1"
        /\ h[p].pendingOrderID \in h[p].touched
        /\ orders[h[p].pendingOrderID].status = "CANCELLED"
        /\ Cancellation(h[p].pendingOrderID) = 0

\* ---------------------------------------------------------------- C36
\* Handler p has answered a POST /orders request with an error.
CreateRefused(p) ==
    /\ h[p].pc = "done"
    /\ h[p].outcome = "rest_rejected"
    /\ h[p].reply.kind \in
            {"invalid JSON payload", "order must contain at least one item",
             "item not available", "internal error"}

\* C36: POST /orders is all-or-nothing.  A request answered with an error
\* (item unknown or unavailable, a failed statement, a failed commit) has
\* changed no order, left no order row and no line of the id it had drawn and
\* holds no open transaction; no step of the request before its commit
\* changes the committed tables; no committed line is without its order; and
\* a request answered 201 has stored a CONFIRMED order whose total_cost is its
\* transport_fee plus the sum of quantity * unit_price of its lines, the
\* amount of the reply.
C36_CreateAllOrNothing ==
    /\ [](\A p \in Procs :
            /\ CreateRefused(p) =>
                    /\ h[p].touched = {}
                    /\ ~TxOpen(p)
                    /\ h[p].orderID # NoOrder =>
                            (h[p].orderID \notin DOMAIN orders /\ ItemsOf(h[p].orderID) = <<>>)
            /\ (h[p].pc = "done" /\ h[p].outcome = "rest_created") =>
                    LET o == h[p].orderID IN
                    /\ o \in DOMAIN orders
                    /\ ~TxOpen(p)
                    /\ orders[o].status = "CONFIRMED"
                    /\ Len(ItemsOf(o)) >= 1
                    /\ orders[o].total_cost = orders[o].transport_fee + Subtotal(ItemsOf(o))
                    /\ h[p].reply.amount = orders[o].total_cost)
    /\ [](\A i \in 1..Len(order_items) : order_items[i].order_id \in DOMAIN orders)
    /\ [][\A p \in Procs :
            (/\ h[p].pc \in {"create_begin", "create_line", "create_commit"}
             /\ h'[p] # h[p]
             /\ h'[p].outcome # "rest_created") =>
                (orders' = orders /\ order_items' = order_items)]_vars

\* A request for one bread loaf was answered 201: the order is stored with
\* its line and a total above its fee.
C36_Witness ==
    \E p \in Procs :
        /\ h[p].pc = "done"
        /\ h[p].outcome = "rest_created"
        /\ Len(ItemsOf(h[p].orderID)) = 1
        /\ orders[h[p].orderID].total_cost = orders[h[p].orderID].transport_fee + 2000

\* A request whose second item is not in the catalog was refused after its
\* first line had been inserted: nothing of it is stored.
C36_RefusedAfterLine ==
    \E p \in Procs :
        /\ CreateRefused(p)
        /\ h[p].reply.kind = "item not available"
        /\ h[p].orderID # NoOrder
        /\ h[p].orderID \notin DOMAIN orders

\* C37: a notification goroutine of POST /orders or DELETE /orders that runs
\* after its handler has returned, and so after the request's context was
\* cancelled, still completes its user lookup and attempts the send.
C37_RestMailOutlivesRequest ==
    \A x \in ended : x.email \in ctxDone => x.how \in {"sent", "send failed"}

\* A REST notification goroutine ran after its handler had returned.
C37_Witness ==
    \E x \in ended : x.email \in ctxDone /\ x.email.kind = "order confirmation"

\* A line, buffered or committed, that carries unit price 0.
ZeroPriced ==
    {r \in UNION {{tx[p].items[i] : i \in DOMAIN tx[p].items} : p \in Procs}
            \cup {order_items[i] : i \in DOMAIN order_items} : r.unit_price = 0}

\* C38: whatever the shape of the top catalog match, no turn ends in a panic,
\* every finished turn has its transaction committed or rolled back, and no
\* line is stored with unit price 0.
C38_OddHitRefused ==
    /\ \A p \in Procs :
        h[p].pc = "done" => h[p].outcome # "panicked" /\ tx[p] = NoTx
    /\ ZeroPriced = {}

\* A turn panicked on its second line, with the first line buffered in a
\* transaction that is still open.
C38_Witness ==
    \E p \in Procs :
        /\ h[p].pc = "done"
        /\ h[p].outcome = "panicked"
        /\ Len(tx[p].items) = 1

====
